---------------------------- MODULE Spec2Model ----------------------------
(***************************************************************************)
(* Model of the SysY language server: the declaration and function         *)
(* validators, the diagnostic enrichment table and the quick-fix engine.   *)
(*                                                                         *)
(* Text is modelled character by character: a string is a sequence of      *)
(* one-character strings.  An ASCII character stands for itself; any other *)
(* character is written "uXXXX" (its code point), so that substring tests  *)
(* and regular expressions behave as they do on the program's strings.     *)
(* The comment above each literal gives the text it spells.                *)
(***************************************************************************)
EXTENDS Integers, Sequences, FiniteSets, TLC

VARIABLES
    op,               \* the handler that ran last ("idle" between calls)
    arg,              \* its input
    out,              \* its result
    ast,              \* the AST of the open document, nodes in traversal order
    diagnostics,      \* outcome of the latest validation run on ast: the
                      \* diagnostics in order, and how many checks threw
    prevDiagnostics,  \* outcome of the run before it on the same ast
    runs,             \* validation runs on ast so far (capped at MaxRuns)
    reported,         \* seen-name set left by the latest checkUniqueDef call
    funcNames,        \* seen-name set left by the latest checkUniqueFuncName call
    currentSession,   \* debuggerService.currentSession
    timers,           \* the callbacks handed to setTimeout that have not run yet,
                      \* in the order they were scheduled
    started           \* debug sessions started so far (capped at MaxSessions)

vars ==
    <<op, arg, out, ast, diagnostics, prevDiagnostics, runs, reported, funcNames,
      currentSession, timers, started>>

DebuggerVars == <<currentSession, timers, started>>

---------------------------------------------------------------------------
(* Bounds of the model *)

\* longest declaration group / function list / initializer list explored
MaxNames == 3
\* largest declared array size and parameter count explored
MaxCount == 3
\* validation runs counted on one AST
MaxRuns == 2
\* longest function list of a validated document
MaxFuncs == 2
\* longest free text handed to the enrichment lookup
MaxText == 2
\* largest text offset of the documents the hover provider is asked about
MaxOffset == 2
\* debug sessions started in one behaviour
MaxSessions == 2
\* timer callbacks pending at once
MaxTimers == 2
\* instructions of the longest executable debugged
MaxInstructions == 2

---------------------------------------------------------------------------
(* Characters and strings *)

Digits == <<"0", "1", "2", "3", "4", "5", "6", "7", "8", "9">>

Letters ==
    {"a", "b", "c", "d", "e", "f", "g", "h", "i", "j", "k", "l", "m", "n", "o", "p", "q",
     "r", "s", "t", "u", "v", "w", "x", "y", "z",
     "A", "B", "C", "D", "E", "F", "G", "H", "I", "J", "K", "L", "M", "N", "O", "P", "Q",
     "R", "S", "T", "U", "V", "W", "X", "Y", "Z"}

IsDigit(c) == \E d \in 1..10 : Digits[d] = c

DigitVal(c) == (CHOOSE d \in 1..10 : Digits[d] = c) - 1

\* the element of a one-element set: { e(x) : x \in {v} } evaluates v once and
\* names its value x, where LET x == v evaluates v at every use of x
The(S) == CHOOSE x \in S : TRUE

\* the character classes the program's regular expressions use
InClass(c, cls) ==
    CASE cls = "s"       -> c \in {" ", "\n", "\t", "\r"}
      [] cls = "d"       -> IsDigit(c)
      [] cls = "w"       -> c \in Letters \/ IsDigit(c) \/ c = "_"
      [] cls = "dot"     -> c \notin {"\n", "\r"}
      [] cls = "nspace"  -> c \notin {" ", "\n", "\t", "\r"}
      [] cls = "nquote"  -> c # "'"
      [] cls = "nqsd"    -> c \notin {"'", " ", "\n", "\t", "\r", "."}
      [] cls = "nbrace"  -> c # "}"
      [] cls = "quote"   -> c = "'"

\* s has t at position i (1-based)
HasAt(s, i, t) ==
    /\ i >= 1
    /\ i + Len(t) - 1 <= Len(s)
    /\ \A j \in 1..Len(t) : s[i + j - 1] = t[j]

\* String.prototype.indexOf, 1-based; 0 when t does not occur in s
IndexOfFrom(s, t, from) ==
    LET hits == {i \in from..(Len(s) - Len(t) + 1) : HasAt(s, i, t)}
    IN  IF hits = {} THEN 0 ELSE CHOOSE i \in hits : \A j \in hits : i <= j

IndexOf(s, t) == IndexOfFrom(s, t, 1)

\* String.prototype.includes
Includes(s, t) == \E i \in 1..(Len(s) - Len(t) + 1) : HasAt(s, i, t)

StartsWith(s, t) == HasAt(s, 1, t)

EndsWith(s, t) == Len(s) >= Len(t) /\ HasAt(s, Len(s) - Len(t) + 1, t)

RECURSIVE Concat(_)
\* Array.prototype.join("") of a sequence of strings
Concat(ss) == IF ss = <<>> THEN <<>> ELSE Head(ss) \o Concat(Tail(ss))

RECURSIVE Join(_, _)
\* Array.prototype.join(sep)
Join(ss, sep) ==
    IF ss = <<>> THEN <<>>
    ELSE IF Len(ss) = 1 THEN ss[1]
    ELSE ss[1] \o sep \o Join(Tail(ss), sep)

RECURSIVE Split(_, _)
\* String.prototype.split(c) on a one-character separator
Split(s, c) ==
    LET i == IndexOf(s, <<c>>)
    IN  IF i = 0 THEN <<s>>
        ELSE <<SubSeq(s, 1, i - 1)>> \o Split(SubSeq(s, i + 1, Len(s)), c)

RECURSIVE TrimLeft(_)
TrimLeft(s) == IF s # <<>> /\ InClass(s[1], "s") THEN TrimLeft(Tail(s)) ELSE s

RECURSIVE TrimRight(_)
TrimRight(s) ==
    IF s # <<>> /\ InClass(s[Len(s)], "s") THEN TrimRight(SubSeq(s, 1, Len(s) - 1)) ELSE s

\* String.prototype.trim
Trim(s) == TrimRight(TrimLeft(s))

RECURSIVE ToDigits(_)
\* the decimal rendering of a natural number in a template string
ToDigits(n) ==
    IF n < 10 THEN <<Digits[n + 1]>> ELSE ToDigits(n \div 10) \o <<Digits[(n % 10) + 1]>>

RECURSIVE DigitsValue(_)
DigitsValue(ds) ==
    IF ds = <<>> THEN 0 ELSE DigitsValue(SubSeq(ds, 1, Len(ds) - 1)) * 10 + DigitVal(ds[Len(ds)])

RECURSIVE RunLen(_, _, _)
\* how many consecutive characters of class cls s has from position i
RunLen(s, i, cls) ==
    IF i <= Len(s) /\ InClass(s[i], cls) THEN 1 + RunLen(s, i + 1, cls) ELSE 0

\* what String(undefined) spells: a field the parser left unset, read as text
Undefined == <<"u", "n", "d", "e", "f", "i", "n", "e", "d">>

\* parseInt(text, 10): leading white space, then decimal digits; NaN when there
\* are none (sizes are never signed)
ParseInt(text) ==
    LET t == TrimLeft(text)
        n == RunLen(t, 1, "d")
    IN  IF n = 0 THEN [nan |-> TRUE, v |-> 0]
        ELSE [nan |-> FALSE, v |-> DigitsValue(SubSeq(t, 1, n))]

---------------------------------------------------------------------------
(* Regular expressions: a pattern is a sequence of items, each a literal   *)
(* or a greedy repetition of a character class, optionally captured.  The  *)
(* matcher backtracks as the JavaScript engine does: longest repetition    *)
(* first.                                                                  *)

Lit(s) == [t |-> "lit", s |-> s]

\* cls{min,max}; max = -1 is unbounded; cap > 0 numbers the capture group
Rep(cls, min, max, cap) == [t |-> "rep", c |-> cls, min |-> min, max |-> max, cap |-> cap]

NoCapture == [def |-> FALSE, s |-> <<>>]

NoMatch == [ok |-> FALSE, start |-> 0, end |-> 0, caps |-> <<NoCapture, NoCapture>>]

RECURSIVE MatchItems(_, _, _, _, _)
RECURSIVE TryRep(_, _, _, _, _, _)
\* match items k.. of the pattern against s from position i
MatchItems(items, k, s, i, caps) ==
    IF k > Len(items) THEN [ok |-> TRUE, start |-> 0, end |-> i, caps |-> caps]
    ELSE LET it == items[k]
         IN  IF it.t = "lit"
             THEN IF HasAt(s, i, it.s)
                  THEN MatchItems(items, k + 1, s, i + Len(it.s), caps)
                  ELSE NoMatch
             ELSE LET run == RunLen(s, i, it.c)
                      hi  == IF it.max < 0 \/ run < it.max THEN run ELSE it.max
                  IN  TryRep(items, k, s, i, caps, hi)

TryRep(items, k, s, i, caps, n) ==
    IF n < items[k].min THEN NoMatch
    ELSE LET caps2 == IF items[k].cap > 0
                      THEN [caps EXCEPT ![items[k].cap] =
                               [def |-> TRUE, s |-> SubSeq(s, i, i + n - 1)]]
                      ELSE caps
             r == MatchItems(items, k + 1, s, i + n, caps2)
         IN  IF r.ok THEN r ELSE TryRep(items, k, s, i, caps, n - 1)

RECURSIVE SearchFrom(_, _, _)
\* String.prototype.match(regex) without the g flag: the leftmost match
SearchFrom(items, s, i) ==
    IF i > Len(s) + 1 THEN NoMatch
    ELSE LET r == MatchItems(items, 1, s, i, <<NoCapture, NoCapture>>)
         IN  IF r.ok THEN [r EXCEPT !.start = i] ELSE SearchFrom(items, s, i + 1)

Match(items, s) == SearchFrom(items, s, 1)

\* the text a match covers (match[0])
Matched(s, m) == SubSeq(s, m.start, m.end - 1)

\* String.prototype.replace(regex, text): the first match replaced
Replace(s, items, text) ==
    LET m == Match(items, s)
    IN  IF m.ok THEN SubSeq(s, 1, m.start - 1) \o text \o SubSeq(s, m.end, Len(s)) ELSE s

\* a captured group is falsy when it is undefined or empty
Truthy(cap) == cap.def /\ cap.s # <<>>

---------------------------------------------------------------------------
(* String literals of the program *)

\* "无法重新声明块范围变量 '"   -- src/unnamed/part_002:40
L_DupDeclPre ==
    <<"u65e0", "u6cd5", "u91cd", "u65b0", "u58f0", "u660e", "u5757", "u8303", "u56f4",
      "u53d8", "u91cf", " ", "'">>
\* "'。"   -- src/unnamed/part_002:40
L_QuoteStop ==
    <<"'", "u3002">>
\* "数组 "   -- src/unnamed/part_002:72
L_ArrPre ==
    <<"u6570", "u7ec4", " ">>
\* " 的初始化元素数量超过了数组大小。"   -- src/unnamed/part_002:72
L_ArrPost ==
    <<" ", "u7684", "u521d", "u59cb", "u5316", "u5143", "u7d20", "u6570", "u91cf", "u8d85",
      "u8fc7", "u4e86", "u6570", "u7ec4", "u5927", "u5c0f", "u3002">>
\* "使用了未定义的变量 '"   -- src/unnamed/part_002:130
L_UndefVarPre ==
    <<"u4f7f", "u7528", "u4e86", "u672a", "u5b9a", "u4e49", "u7684", "u53d8", "u91cf", " ",
      "'">>
\* "调用了未定义的函数 '"   -- src/static/example-loader.js:459
L_UndefFuncPre ==
    <<"u8c03", "u7528", "u4e86", "u672a", "u5b9a", "u4e49", "u7684", "u51fd", "u6570", " ",
      "'">>
\* "函数名 '"   -- src/static/example-loader.js:485
L_DupFuncPre ==
    <<"u51fd", "u6570", "u540d", " ", "'">>
\* "' 已经定义过。"   -- src/static/example-loader.js:485
L_DupFuncPost ==
    <<"'", " ", "u5df2", "u7ecf", "u5b9a", "u4e49", "u8fc7", "u3002">>
\* "'break' 语句只能在循环中使用。"   -- src/static/example-loader.js:538
L_BreakMsg ==
    <<"'", "b", "r", "e", "a", "k", "'", " ", "u8bed", "u53e5", "u53ea", "u80fd", "u5728",
      "u5faa", "u73af", "u4e2d", "u4f7f", "u7528", "u3002">>
\* "'continue' 语句只能在循环中使用。"   -- src/static/example-loader.js:557
L_ContinueMsg ==
    <<"'", "c", "o", "n", "t", "i", "n", "u", "e", "'", " ", "u8bed", "u53e5", "u53ea",
      "u80fd", "u5728", "u5faa", "u73af", "u4e2d", "u4f7f", "u7528", "u3002">>
\* "参数个数不匹配。预期 "   -- src/static/example-loader.js:616
L_ParamPre ==
    <<"u53c2", "u6570", "u4e2a", "u6570", "u4e0d", "u5339", "u914d", "u3002", "u9884",
      "u671f", " ">>
\* " 个参数，但实际调用时传递了 "   -- src/static/example-loader.js:616
L_ParamMid ==
    <<" ", "u4e2a", "u53c2", "u6570", "uff0c", "u4f46", "u5b9e", "u9645", "u8c03", "u7528",
      "u65f6", "u4f20", "u9012", "u4e86", " ">>
\* " 个参数。"   -- src/static/example-loader.js:616
L_ParamPost ==
    <<" ", "u4e2a", "u53c2", "u6570", "u3002">>
\* "有返回值: "   -- src/static/example-loader.js:661
L_RetPre ==
    <<"u6709", "u8fd4", "u56de", "u503c", ":", " ">>
\* " 的函数缺少 return 语句。"   -- src/static/example-loader.js:661
L_MissRetPost ==
    <<" ", "u7684", "u51fd", "u6570", "u7f3a", "u5c11", " ", "r", "e", "t", "u", "r", "n",
      " ", "u8bed", "u53e5", "u3002">>
\* " 的函数不应返回为空。"   -- src/static/example-loader.js:683
L_EmptyRetPost ==
    <<" ", "u7684", "u51fd", "u6570", "u4e0d", "u5e94", "u8fd4", "u56de", "u4e3a", "u7a7a",
      "u3002">>
\* "void 函数不应存在非空返回值。"   -- src/static/example-loader.js:706
L_VoidRetMsg ==
    <<"v", "o", "i", "d", " ", "u51fd", "u6570", "u4e0d", "u5e94", "u5b58", "u5728",
      "u975e", "u7a7a", "u8fd4", "u56de", "u503c", "u3002">>
\* "不能将void类型变量参与运算或用于赋值"   -- src/static/example-loader.js:736
L_VoidAssignMsg ==
    <<"u4e0d", "u80fd", "u5c06", "v", "o", "i", "d", "u7c7b", "u578b", "u53d8", "u91cf",
      "u53c2", "u4e0e", "u8fd0", "u7b97", "u6216", "u7528", "u4e8e", "u8d4b", "u503c">>
\* "未知错误"   -- src/src/language/main.ts:377
L_Unknown ==
    <<"u672a", "u77e5", "u9519", "u8bef">>
\* "\n\n详细信息："   -- src/src/language/main.ts:384
L_DetailSep ==
    <<"\n", "\n", "u8be6", "u7ec6", "u4fe1", "u606f", "uff1a">>
\* "\n建议："   -- src/src/language/main.ts:384
L_SuggestSep ==
    <<"\n", "u5efa", "u8bae", "uff1a">>

\* "数组"   -- src/src/language/hello-world-validator.ts:865
R_Array ==
    <<"u6570", "u7ec4">>
\* "的初始化元素数量超过了数组大小"   -- src/src/language/hello-world-validator.ts:865
R_ArrayTail ==
    <<"u7684", "u521d", "u59cb", "u5316", "u5143", "u7d20", "u6570", "u91cf", "u8d85",
      "u8fc7", "u4e86", "u6570", "u7ec4", "u5927", "u5c0f">>
\* "参数个数不匹配。预期"   -- src/src/language/hello-world-validator.ts:1000
R_ParamHead ==
    <<"u53c2", "u6570", "u4e2a", "u6570", "u4e0d", "u5339", "u914d", "u3002", "u9884",
      "u671f">>
\* "个参数，但实际调用时传递了"   -- src/src/language/hello-world-validator.ts:1000
R_ParamMid ==
    <<"u4e2a", "u53c2", "u6570", "uff0c", "u4f46", "u5b9e", "u9645", "u8c03", "u7528",
      "u65f6", "u4f20", "u9012", "u4e86">>
\* "个参数"   -- src/src/language/hello-world-validator.ts:1000
R_ParamTail ==
    <<"u4e2a", "u53c2", "u6570">>
\* "传递了"   -- src/src/language/hello-world-validator.ts:660
R_Passed ==
    <<"u4f20", "u9012", "u4e86">>
\* "有返回值:"   -- src/src/language/hello-world-validator.ts:1155
R_RetHead ==
    <<"u6709", "u8fd4", "u56de", "u503c", ":">>
\* "的函数缺少"   -- src/src/language/hello-world-validator.ts:1155
R_RetTail ==
    <<"u7684", "u51fd", "u6570", "u7f3a", "u5c11">>
\* "0 /* 参数"   -- src/src/language/hello-world-validator.ts:1080
L_PlaceholderPre ==
    <<"0", " ", "/", "*", " ", "u53c2", "u6570">>
\* " */"   -- src/src/language/hello-world-validator.ts:1080
L_PlaceholderPost ==
    <<" ", "*", "/">>

---------------------------------------------------------------------------
(* ErrorMessageProvider: the enrichment table and its lookups *)

\* the values of the ErrorCategory enum (OTHER_ is its member OTHER)
ErrorCategory ==
    [VARIABLE |-> "VAR", FUNCTION |-> "FUNC", ARRAY |-> "ARR", TYPE |-> "TYPE",
     CONTROL |-> "CTRL", OTHER_ |-> "OTHER"]

\* ErrorMessageProvider.ERROR_DETAILS, in the order its keys are enumerated
ERROR_DETAILS ==
    <<
      \* 1: "无法重新声明块范围变量"
      \*    在同一个作用域中，每个变量名只能声明一次。请使用不同的变量名或在不同的作用域中声明。
      \*    使用不同的变量名或移除重复声明
      [key |->
          <<"u65e0", "u6cd5", "u91cd", "u65b0", "u58f0", "u660e", "u5757", "u8303",
            "u56f4", "u53d8", "u91cf">>,
       message |->
          <<"u5728", "u540c", "u4e00", "u4e2a", "u4f5c", "u7528", "u57df", "u4e2d",
            "uff0c", "u6bcf", "u4e2a", "u53d8", "u91cf", "u540d", "u53ea", "u80fd",
            "u58f0", "u660e", "u4e00", "u6b21", "u3002", "u8bf7", "u4f7f", "u7528",
            "u4e0d", "u540c", "u7684", "u53d8", "u91cf", "u540d", "u6216", "u5728",
            "u4e0d", "u540c", "u7684", "u4f5c", "u7528", "u57df", "u4e2d", "u58f0",
            "u660e", "u3002">>,
       suggestion |->
          <<"u4f7f", "u7528", "u4e0d", "u540c", "u7684", "u53d8", "u91cf", "u540d",
            "u6216", "u79fb", "u9664", "u91cd", "u590d", "u58f0", "u660e">>,
       category |-> ErrorCategory.VARIABLE],
      \* 2: "使用了未定义的变量"
      \*    尝试使用一个未在当前作用域中声明的变量。请确保在使用前先声明变量。
      \*    先声明变量再使用
      [key |->
          <<"u4f7f", "u7528", "u4e86", "u672a", "u5b9a", "u4e49", "u7684", "u53d8", "u91cf">>,
       message |->
          <<"u5c1d", "u8bd5", "u4f7f", "u7528", "u4e00", "u4e2a", "u672a", "u5728",
            "u5f53", "u524d", "u4f5c", "u7528", "u57df", "u4e2d", "u58f0", "u660e",
            "u7684", "u53d8", "u91cf", "u3002", "u8bf7", "u786e", "u4fdd", "u5728",
            "u4f7f", "u7528", "u524d", "u5148", "u58f0", "u660e", "u53d8", "u91cf", "u3002">>,
       suggestion |->
          <<"u5148", "u58f0", "u660e", "u53d8", "u91cf", "u518d", "u4f7f", "u7528">>,
       category |-> ErrorCategory.VARIABLE],
      \* 3: "未声明的变量"
      \*    引用了一个在当前作用域中不存在的变量。变量必须在使用前声明。
      \*    声明该变量或检查变量名是否拼写错误
      [key |->
          <<"u672a", "u58f0", "u660e", "u7684", "u53d8", "u91cf">>,
       message |->
          <<"u5f15", "u7528", "u4e86", "u4e00", "u4e2a", "u5728", "u5f53", "u524d",
            "u4f5c", "u7528", "u57df", "u4e2d", "u4e0d", "u5b58", "u5728", "u7684",
            "u53d8", "u91cf", "u3002", "u53d8", "u91cf", "u5fc5", "u987b", "u5728",
            "u4f7f", "u7528", "u524d", "u58f0", "u660e", "u3002">>,
       suggestion |->
          <<"u58f0", "u660e", "u8be5", "u53d8", "u91cf", "u6216", "u68c0", "u67e5",
            "u53d8", "u91cf", "u540d", "u662f", "u5426", "u62fc", "u5199", "u9519", "u8bef">>,
       category |-> ErrorCategory.VARIABLE],
      \* 4: "数组的初始化元素数量超过了数组大小"
      \*    数组初始化时提供的元素数量不能超过数组声明的大小。请减少初始化元素的数量或增加数组大小。
      \*    增大数组声明大小或减少初始化元素
      [key |->
          <<"u6570", "u7ec4", "u7684", "u521d", "u59cb", "u5316", "u5143", "u7d20",
            "u6570", "u91cf", "u8d85", "u8fc7", "u4e86", "u6570", "u7ec4", "u5927", "u5c0f">>,
       message |->
          <<"u6570", "u7ec4", "u521d", "u59cb", "u5316", "u65f6", "u63d0", "u4f9b",
            "u7684", "u5143", "u7d20", "u6570", "u91cf", "u4e0d", "u80fd", "u8d85",
            "u8fc7", "u6570", "u7ec4", "u58f0", "u660e", "u7684", "u5927", "u5c0f",
            "u3002", "u8bf7", "u51cf", "u5c11", "u521d", "u59cb", "u5316", "u5143",
            "u7d20", "u7684", "u6570", "u91cf", "u6216", "u589e", "u52a0", "u6570",
            "u7ec4", "u5927", "u5c0f", "u3002">>,
       suggestion |->
          <<"u589e", "u5927", "u6570", "u7ec4", "u58f0", "u660e", "u5927", "u5c0f",
            "u6216", "u51cf", "u5c11", "u521d", "u59cb", "u5316", "u5143", "u7d20">>,
       category |-> ErrorCategory.ARRAY],
      \* 5: "调用了未定义的函数"
      \*    尝试调用一个未声明的函数。请确保在调用前先定义该函数。
      \*    定义该函数或检查函数名是否拼写错误
      [key |->
          <<"u8c03", "u7528", "u4e86", "u672a", "u5b9a", "u4e49", "u7684", "u51fd", "u6570">>,
       message |->
          <<"u5c1d", "u8bd5", "u8c03", "u7528", "u4e00", "u4e2a", "u672a", "u58f0",
            "u660e", "u7684", "u51fd", "u6570", "u3002", "u8bf7", "u786e", "u4fdd",
            "u5728", "u8c03", "u7528", "u524d", "u5148", "u5b9a", "u4e49", "u8be5",
            "u51fd", "u6570", "u3002">>,
       suggestion |->
          <<"u5b9a", "u4e49", "u8be5", "u51fd", "u6570", "u6216", "u68c0", "u67e5",
            "u51fd", "u6570", "u540d", "u662f", "u5426", "u62fc", "u5199", "u9519", "u8bef">>,
       category |-> ErrorCategory.FUNCTION],
      \* 6: "函数名已经定义过"
      \*    在同一个作用域中，每个函数名只能定义一次。请使用不同的函数名。
      \*    使用不同的函数名或移除重复定义
      [key |->
          <<"u51fd", "u6570", "u540d", "u5df2", "u7ecf", "u5b9a", "u4e49", "u8fc7">>,
       message |->
          <<"u5728", "u540c", "u4e00", "u4e2a", "u4f5c", "u7528", "u57df", "u4e2d",
            "uff0c", "u6bcf", "u4e2a", "u51fd", "u6570", "u540d", "u53ea", "u80fd",
            "u5b9a", "u4e49", "u4e00", "u6b21", "u3002", "u8bf7", "u4f7f", "u7528",
            "u4e0d", "u540c", "u7684", "u51fd", "u6570", "u540d", "u3002">>,
       suggestion |->
          <<"u4f7f", "u7528", "u4e0d", "u540c", "u7684", "u51fd", "u6570", "u540d",
            "u6216", "u79fb", "u9664", "u91cd", "u590d", "u5b9a", "u4e49">>,
       category |-> ErrorCategory.FUNCTION],
      \* 7: "参数个数不匹配"
      \*    函数调用时提供的参数数量与函数定义时的参数数量不匹配。请检查函数定义并提供正确数量的参数。
      \*    调整参数数量以匹配函数定义
      [key |->
          <<"u53c2", "u6570", "u4e2a", "u6570", "u4e0d", "u5339", "u914d">>,
       message |->
          <<"u51fd", "u6570", "u8c03", "u7528", "u65f6", "u63d0", "u4f9b", "u7684",
            "u53c2", "u6570", "u6570", "u91cf", "u4e0e", "u51fd", "u6570", "u5b9a",
            "u4e49", "u65f6", "u7684", "u53c2", "u6570", "u6570", "u91cf", "u4e0d",
            "u5339", "u914d", "u3002", "u8bf7", "u68c0", "u67e5", "u51fd", "u6570",
            "u5b9a", "u4e49", "u5e76", "u63d0", "u4f9b", "u6b63", "u786e", "u6570",
            "u91cf", "u7684", "u53c2", "u6570", "u3002">>,
       suggestion |->
          <<"u8c03", "u6574", "u53c2", "u6570", "u6570", "u91cf", "u4ee5", "u5339",
            "u914d", "u51fd", "u6570", "u5b9a", "u4e49">>,
       category |-> ErrorCategory.FUNCTION],
      \* 8: "非循环块中使用了 Stmtbreak 语句"
      \*    break语句只能用在循环内部。请移除不在循环体内的break语句。
      \*    移除break语句或将其放在循环内
      [key |->
          <<"u975e", "u5faa", "u73af", "u5757", "u4e2d", "u4f7f", "u7528", "u4e86", " ",
            "S", "t", "m", "t", "b", "r", "e", "a", "k", " ", "u8bed", "u53e5">>,
       message |->
          <<"b", "r", "e", "a", "k", "u8bed", "u53e5", "u53ea", "u80fd", "u7528", "u5728",
            "u5faa", "u73af", "u5185", "u90e8", "u3002", "u8bf7", "u79fb", "u9664",
            "u4e0d", "u5728", "u5faa", "u73af", "u4f53", "u5185", "u7684", "b", "r", "e",
            "a", "k", "u8bed", "u53e5", "u3002">>,
       suggestion |->
          <<"u79fb", "u9664", "b", "r", "e", "a", "k", "u8bed", "u53e5", "u6216", "u5c06",
            "u5176", "u653e", "u5728", "u5faa", "u73af", "u5185">>,
       category |-> ErrorCategory.CONTROL],
      \* 9: "非循环块中使用了 Stmtcontinue 语句"
      \*    continue语句只能用在循环内部。请移除不在循环体内的continue语句。
      \*    移除continue语句或将其放在循环内
      [key |->
          <<"u975e", "u5faa", "u73af", "u5757", "u4e2d", "u4f7f", "u7528", "u4e86", " ",
            "S", "t", "m", "t", "c", "o", "n", "t", "i", "n", "u", "e", " ", "u8bed",
            "u53e5">>,
       message |->
          <<"c", "o", "n", "t", "i", "n", "u", "e", "u8bed", "u53e5", "u53ea", "u80fd",
            "u7528", "u5728", "u5faa", "u73af", "u5185", "u90e8", "u3002", "u8bf7",
            "u79fb", "u9664", "u4e0d", "u5728", "u5faa", "u73af", "u4f53", "u5185",
            "u7684", "c", "o", "n", "t", "i", "n", "u", "e", "u8bed", "u53e5", "u3002">>,
       suggestion |->
          <<"u79fb", "u9664", "c", "o", "n", "t", "i", "n", "u", "e", "u8bed", "u53e5",
            "u6216", "u5c06", "u5176", "u653e", "u5728", "u5faa", "u73af", "u5185">>,
       category |-> ErrorCategory.CONTROL],
      \* 10: "有返回值的函数缺少 return 语句"
      \*    有返回值类型的函数必须包含至少一个return语句。请添加带有适当返回值的return语句。
      \*    添加带有适当返回值的return语句
      [key |->
          <<"u6709", "u8fd4", "u56de", "u503c", "u7684", "u51fd", "u6570", "u7f3a",
            "u5c11", " ", "r", "e", "t", "u", "r", "n", " ", "u8bed", "u53e5">>,
       message |->
          <<"u6709", "u8fd4", "u56de", "u503c", "u7c7b", "u578b", "u7684", "u51fd",
            "u6570", "u5fc5", "u987b", "u5305", "u542b", "u81f3", "u5c11", "u4e00",
            "u4e2a", "r", "e", "t", "u", "r", "n", "u8bed", "u53e5", "u3002", "u8bf7",
            "u6dfb", "u52a0", "u5e26", "u6709", "u9002", "u5f53", "u8fd4", "u56de",
            "u503c", "u7684", "r", "e", "t", "u", "r", "n", "u8bed", "u53e5", "u3002">>,
       suggestion |->
          <<"u6dfb", "u52a0", "u5e26", "u6709", "u9002", "u5f53", "u8fd4", "u56de",
            "u503c", "u7684", "r", "e", "t", "u", "r", "n", "u8bed", "u53e5">>,
       category |-> ErrorCategory.FUNCTION],
      \* 11: "有返回值的函数不应返回为空"
      \*    有返回值的函数需要在return语句中提供一个值。请在return语句中添加适当的返回值。
      \*    在return语句中添加返回值
      [key |->
          <<"u6709", "u8fd4", "u56de", "u503c", "u7684", "u51fd", "u6570", "u4e0d",
            "u5e94", "u8fd4", "u56de", "u4e3a", "u7a7a">>,
       message |->
          <<"u6709", "u8fd4", "u56de", "u503c", "u7684", "u51fd", "u6570", "u9700",
            "u8981", "u5728", "r", "e", "t", "u", "r", "n", "u8bed", "u53e5", "u4e2d",
            "u63d0", "u4f9b", "u4e00", "u4e2a", "u503c", "u3002", "u8bf7", "u5728", "r",
            "e", "t", "u", "r", "n", "u8bed", "u53e5", "u4e2d", "u6dfb", "u52a0", "u9002",
            "u5f53", "u7684", "u8fd4", "u56de", "u503c", "u3002">>,
       suggestion |->
          <<"u5728", "r", "e", "t", "u", "r", "n", "u8bed", "u53e5", "u4e2d", "u6dfb",
            "u52a0", "u8fd4", "u56de", "u503c">>,
       category |-> ErrorCategory.FUNCTION],
      \* 12: "void 函数不应存在非空返回值"
      \*    void类型的函数不应该有返回值。请移除return语句中的表达式。
      \*    移除return语句中的表达式或使用'return;'
      [key |->
          <<"v", "o", "i", "d", " ", "u51fd", "u6570", "u4e0d", "u5e94", "u5b58", "u5728",
            "u975e", "u7a7a", "u8fd4", "u56de", "u503c">>,
       message |->
          <<"v", "o", "i", "d", "u7c7b", "u578b", "u7684", "u51fd", "u6570", "u4e0d",
            "u5e94", "u8be5", "u6709", "u8fd4", "u56de", "u503c", "u3002", "u8bf7",
            "u79fb", "u9664", "r", "e", "t", "u", "r", "n", "u8bed", "u53e5", "u4e2d",
            "u7684", "u8868", "u8fbe", "u5f0f", "u3002">>,
       suggestion |->
          <<"u79fb", "u9664", "r", "e", "t", "u", "r", "n", "u8bed", "u53e5", "u4e2d",
            "u7684", "u8868", "u8fbe", "u5f0f", "u6216", "u4f7f", "u7528", "'", "r", "e",
            "t", "u", "r", "n", ";", "'">>,
       category |-> ErrorCategory.FUNCTION],
      \* 13: "不能将void类型变量参与运算或用于赋值"
      \*    void类型的函数返回值不能用于赋值或参与运算。请使用有返回值的函数。
      \*    修改函数返回类型或不将结果用于赋值
      [key |->
          <<"u4e0d", "u80fd", "u5c06", "v", "o", "i", "d", "u7c7b", "u578b", "u53d8",
            "u91cf", "u53c2", "u4e0e", "u8fd0", "u7b97", "u6216", "u7528", "u4e8e",
            "u8d4b", "u503c">>,
       message |->
          <<"v", "o", "i", "d", "u7c7b", "u578b", "u7684", "u51fd", "u6570", "u8fd4",
            "u56de", "u503c", "u4e0d", "u80fd", "u7528", "u4e8e", "u8d4b", "u503c",
            "u6216", "u53c2", "u4e0e", "u8fd0", "u7b97", "u3002", "u8bf7", "u4f7f",
            "u7528", "u6709", "u8fd4", "u56de", "u503c", "u7684", "u51fd", "u6570", "u3002">>,
       suggestion |->
          <<"u4fee", "u6539", "u51fd", "u6570", "u8fd4", "u56de", "u7c7b", "u578b",
            "u6216", "u4e0d", "u5c06", "u7ed3", "u679c", "u7528", "u4e8e", "u8d4b", "u503c">>,
       category |-> ErrorCategory.TYPE],
      \* 14: "类型不匹配"
      \*    表达式的类型与预期的类型不匹配。请确保类型兼容或添加适当的类型转换。
      \*    修改表达式或添加类型转换
      [key |->
          <<"u7c7b", "u578b", "u4e0d", "u5339", "u914d">>,
       message |->
          <<"u8868", "u8fbe", "u5f0f", "u7684", "u7c7b", "u578b", "u4e0e", "u9884",
            "u671f", "u7684", "u7c7b", "u578b", "u4e0d", "u5339", "u914d", "u3002",
            "u8bf7", "u786e", "u4fdd", "u7c7b", "u578b", "u517c", "u5bb9", "u6216",
            "u6dfb", "u52a0", "u9002", "u5f53", "u7684", "u7c7b", "u578b", "u8f6c",
            "u6362", "u3002">>,
       suggestion |->
          <<"u4fee", "u6539", "u8868", "u8fbe", "u5f0f", "u6216", "u6dfb", "u52a0",
            "u7c7b", "u578b", "u8f6c", "u6362">>,
       category |-> ErrorCategory.TYPE],
      \* 15: "数组.*初始化元素数量超过了数组大小"
      \*    数组初始化时提供的元素数量不能超过数组声明的大小。请减少初始化元素的数量或增加数组大小。
      \*    增大数组大小或减少初始化元素
      [key |->
          <<"u6570", "u7ec4", ".", "*", "u521d", "u59cb", "u5316", "u5143", "u7d20",
            "u6570", "u91cf", "u8d85", "u8fc7", "u4e86", "u6570", "u7ec4", "u5927", "u5c0f">>,
       message |->
          <<"u6570", "u7ec4", "u521d", "u59cb", "u5316", "u65f6", "u63d0", "u4f9b",
            "u7684", "u5143", "u7d20", "u6570", "u91cf", "u4e0d", "u80fd", "u8d85",
            "u8fc7", "u6570", "u7ec4", "u58f0", "u660e", "u7684", "u5927", "u5c0f",
            "u3002", "u8bf7", "u51cf", "u5c11", "u521d", "u59cb", "u5316", "u5143",
            "u7d20", "u7684", "u6570", "u91cf", "u6216", "u589e", "u52a0", "u6570",
            "u7ec4", "u5927", "u5c0f", "u3002">>,
       suggestion |->
          <<"u589e", "u5927", "u6570", "u7ec4", "u5927", "u5c0f", "u6216", "u51cf",
            "u5c11", "u521d", "u59cb", "u5316", "u5143", "u7d20">>,
       category |-> ErrorCategory.ARRAY]
    >>

\* errorPattern.startsWith('"') && errorPattern.endsWith('"')
IsRegexKey(key) == StartsWith(key, <<"\"">>) /\ EndsWith(key, <<"\"">>)

\* the characters that are not plain text in a regular expression
RegexMeta == {"(", ")", "[", "]", "{", "}", "*", "+", "?", "|", "\\", "^", "$", "."}

RECURSIVE CompilePattern(_)
\* new RegExp(p) for the patterns a table key can spell: plain characters, and
\* a dot or dot-star
CompilePattern(p) ==
    IF p = <<>> THEN <<>>
    ELSE IF Len(p) >= 2 /\ p[1] = "." /\ p[2] = "*"
         THEN <<Rep("dot", 0, -1, 0)>> \o CompilePattern(SubSeq(p, 3, Len(p)))
    ELSE IF p[1] = "."
         THEN <<Rep("dot", 1, 1, 0)>> \o CompilePattern(Tail(p))
    ELSE <<Lit(<<p[1]>>)>> \o CompilePattern(Tail(p))

RECURSIVE PatternValid(_)
\* new RegExp(p) throws a SyntaxError on any other use of a metacharacter here
PatternValid(p) ==
    IF p = <<>> THEN TRUE
    ELSE IF Len(p) >= 2 /\ p[1] = "." /\ p[2] = "*" THEN PatternValid(SubSeq(p, 3, Len(p)))
    ELSE IF p[1] = "." THEN PatternValid(Tail(p))
    ELSE p[1] \notin RegexMeta /\ PatternValid(Tail(p))

\* `${message}\n\n详细信息：${errorInfo.message}\n建议：${errorInfo.suggestion}`
EnhancedText(message, info) ==
    message \o L_DetailSep \o info.message \o L_SuggestSep \o info.suggestion

\* a seeded fault: every entry counts as contained
EveryEntry(message) == 1..Len(ERROR_DETAILS)

\* first pass: the table entries whose key the message contains
SubstringHits(message) ==
    {k \in 1..Len(ERROR_DETAILS) : Includes(message, ERROR_DETAILS[k].key)}

\* second pass: the entries with a quoted key, the key's inside taken as a pattern
RegexKeys == {k \in 1..Len(ERROR_DETAILS) : IsRegexKey(ERROR_DETAILS[k].key)}

RegexPatternOf(k) == SubSeq(ERROR_DETAILS[k].key, 2, Len(ERROR_DETAILS[k].key) - 1)

Least(S) == CHOOSE k \in S : \A j \in S : k <= j

RECURSIVE RegexPass(_, _)
\* the second loop from entry k on: the first quoted key whose pattern matches,
\* or a SyntaxError from constructing a pattern on the way; 0 when none matches
RegexPass(message, k) ==
    IF k > Len(ERROR_DETAILS) THEN [raised |-> FALSE, hit |-> 0]
    ELSE IF ~IsRegexKey(ERROR_DETAILS[k].key) THEN RegexPass(message, k + 1)
    ELSE IF ~PatternValid(RegexPatternOf(k)) THEN [raised |-> TRUE, hit |-> 0]
    ELSE IF Match(CompilePattern(RegexPatternOf(k)), message).ok
         THEN [raised |-> FALSE, hit |-> k]
    ELSE RegexPass(message, k + 1)

\* the entry the two-pass lookup selects: 0 when none
Lookup(message) ==
    The({IF hits # {} THEN [raised |-> FALSE, hit |-> Least(hits)]
         ELSE RegexPass(message, 1) :
            hits \in {SubstringHits(message)}})

getEnhancedMessage(message) ==
    IF message = <<>> THEN [raised |-> FALSE, value |-> L_Unknown]
    ELSE The({IF r.raised THEN [raised |-> TRUE, value |-> <<>>]
              ELSE IF r.hit # 0
              THEN [raised |-> FALSE, value |-> EnhancedText(message, ERROR_DETAILS[r.hit])]
              ELSE [raised |-> FALSE, value |-> message] :
                 r \in {Lookup(message)}})

getSafeEnhancedMessage(message) ==
    The({IF r.raised
         THEN [raised |-> FALSE, value |-> IF message # <<>> THEN message ELSE L_Unknown]
         ELSE r :
            r \in {getEnhancedMessage(message)}})

getErrorCategory(message) ==
    IF message = <<>> THEN [raised |-> FALSE, category |-> "undefined"]
    ELSE The({IF r.raised THEN [raised |-> TRUE, category |-> "undefined"]
              ELSE IF r.hit # 0
              THEN [raised |-> FALSE, category |-> ERROR_DETAILS[r.hit].category]
              ELSE [raised |-> FALSE, category |-> ErrorCategory.OTHER_] :
                 r \in {Lookup(message)}})

---------------------------------------------------------------------------
(* Diagnostics as the validators hand them to accept()                     *)

ERROR_CODES ==
    [UNDEFINED_VARIABLE     |-> "undefined-variable",
     DUPLICATE_DECLARATION  |-> "duplicate-declaration",
     ARRAY_SIZE_OVERFLOW    |-> "array-size-overflow",
     UNDEFINED_FUNCTION     |-> "undefined-function",
     DUPLICATE_FUNCTION     |-> "duplicate-function",
     PARAMETER_MISMATCH     |-> "parameter-mismatch",
     INVALID_BREAK_CONTINUE |-> "invalid-break-continue",
     MISSING_RETURN         |-> "missing-return",
     EMPTY_RETURN           |-> "empty-return",
     VOID_RETURN_VALUE      |-> "void-return-value",
     VOID_ASSIGNMENT        |-> "void-assignment",
     TYPE_MISMATCH          |-> "type-mismatch",
     MISSING_SEMICOLON      |-> "missing-semicolon",
     UNMATCHED_BRACKETS     |-> "unmatched-brackets",
     UNUSED_VARIABLE        |-> "unused-variable"]

\* accept(severity, message, {node, property, code, data}).  node is the path of
\* the target node: its index in the traversal, then the indices below it.  The
\* payload keeps the category and the named values; its two fixed advice texts,
\* which nothing reads, are left out.
Accept(severity, message, node, property, code, data) ==
    [severity |-> severity, message |-> message, node |-> node,
     property |-> property, code |-> code, data |-> data]

\* what a check hands back: the diagnostics it accepted, and whether it threw
Returned(diags) == [raised |-> FALSE, diags |-> diags]

Thrown(diags) == [raised |-> TRUE, diags |-> diags]

\* an absent reference (ref is undefined) and an absent optional node
NoRef == [resolved |-> FALSE]

NoNode == [type |-> "undefined"]

T_int == <<"i", "n", "t">>

T_float == <<"f", "l", "o", "a", "t">>

T_void == <<"v", "o", "i", "d">>

---------------------------------------------------------------------------
(* DeclValidator *)

\* a seeded fault: the set is kept from the previous call
KeptSet(old) == old

\* const reported = new Set<string>()
NewReportedSet(old) == {}

\* a seeded fault: the name is never recorded
ReportedAddDropped(seen, name) == seen

\* reported.add(d.name), after every definition
ReportedAdd(seen, name) == seen \cup {name}

RECURSIVE UniqueDefLoop(_, _, _, _, _)
\* constDecl.defs.forEach from definition i on
UniqueDefLoop(defs, self, i, seen, acc) ==
    IF i > Len(defs) THEN [raised |-> FALSE, diags |-> acc, seen |-> seen]
    ELSE LET d == defs[i]
             message == L_DupDeclPre \o d.name \o L_QuoteStop
             diag == Accept("error", getSafeEnhancedMessage(message).value,
                            self \o <<i>>, "name", ERROR_CODES.DUPLICATE_DECLARATION,
                            [category |-> "VAR", variableName |-> d.name])
         IN  UniqueDefLoop(defs, self, i + 1, ReportedAdd(seen, d.name),
                           IF d.name \in seen THEN Append(acc, diag) ELSE acc)

\* the Decl node at path self; old is the set a previous call left behind
checkUniqueDef(constDecl, self, old) ==
    UniqueDefLoop(constDecl.defs, self, 1, NewReportedSet(old), <<>>)

\* a seeded fault: a full array counts as overflowing
OverflowsOrFills(count, lengthInt) == ~lengthInt.nan /\ count >= lengthInt.v

\* arr.Init[0].manyInit.length > lengthInt, false when lengthInt is NaN
Overflows(count, lengthInt) == ~lengthInt.nan /\ count > lengthInt.v

hoverTipsArray(arr, self) ==
    IF Len(arr.index) >= 1
    THEN LET lengthInt == ParseInt(arr.index[1].value)
         IN  IF Len(arr.Init) = 0
             THEN Thrown(<<>>)
             ELSE LET count == Len(arr.Init[1].manyInit)
                      message == L_ArrPre \o arr.name \o L_ArrPost
                  IN  IF Overflows(count, lengthInt)
                      THEN Returned(<<Accept("error", getSafeEnhancedMessage(message).value,
                                             self, "Init", ERROR_CODES.ARRAY_SIZE_OVERFLOW,
                                             [category |-> "ARR", arrayName |-> arr.name,
                                              declaredSize |-> lengthInt.v,
                                              actualSize |-> count])>>)
                      ELSE Returned(<<>>)
    ELSE Returned(<<>>)

\* "(参数) "
L_ParamTip == <<"(", "u53c2", "u6570", ")", " ">>

hoverTipsLval(lval, self) ==
    LET ref == lval.value.ref
    IN  IF ~ref.resolved THEN Returned(<<>>)
        ELSE IF ref.type = "FuncFParam"
        THEN Returned(<<Accept("hint",
                               L_ParamTip \o lval.value.refText \o <<":", " ">>
                                   \o ref.btype \o <<"u3002">>,
                               self, "undefined", "undefined", [category |-> "none"])>>)
        ELSE IF ref.type \in {"ConstDef", "VarDef"}
        THEN Returned(<<Accept("hint", ref.containerText, self, "undefined", "undefined",
                               [category |-> "none"])>>)
        ELSE Returned(<<>>)

\* a seeded fault: an unresolved reference goes unreported
checkVariableDeclaredSilent(lval, self) == Returned(<<>>)

checkVariableDeclared(lval, self) ==
    IF ~lval.value.ref.resolved
    THEN LET varName == lval.value.refText
             message == L_UndefVarPre \o varName \o L_QuoteStop
         IN  Returned(<<Accept("error", getSafeEnhancedMessage(message).value,
                               self, "value", ERROR_CODES.UNDEFINED_VARIABLE,
                               [category |-> "VAR", variableName |-> varName])>>)
    ELSE Returned(<<>>)

---------------------------------------------------------------------------
(* FuncValidator *)

\* "(方法) ("
L_MethodTip == <<"(", "u65b9", "u6cd5", ")", " ", "(">>

\* ref?.funcFparam: the declared parameters' texts; undefined without a target
DeclaredParams(funcname) == IF funcname.ref.resolved THEN funcname.ref.funcFparam ELSE <<>>

\* ref?.functype
TargetType(funcname) == IF funcname.ref.resolved THEN funcname.ref.functype ELSE Undefined

hoverTipsFunc(e, self) ==
    Returned(<<Accept("hint",
                      L_MethodTip \o Join(DeclaredParams(e.funcname), <<",", " ">>)
                          \o <<")", ":", " ">> \o TargetType(e.funcname) \o <<"u3002">>,
                      self, "undefined", "undefined", [category |-> "none"])>>)

checkFunctionDeclared(funcCall, self) ==
    IF ~funcCall.funcname.ref.resolved
    THEN LET funcName == funcCall.funcname.refText
             message == L_UndefFuncPre \o funcName \o L_QuoteStop
         IN  Returned(<<Accept("error", getSafeEnhancedMessage(message).value,
                               self, "funcname", ERROR_CODES.UNDEFINED_FUNCTION,
                               [category |-> "FUNC", functionName |-> funcName])>>)
    ELSE Returned(<<>>)

\* const funcNames = new Set<string>()
NewFuncNamesSet(old) == {}

\* a seeded fault: the name is never recorded
FuncNamesAddDropped(seen, name) == seen

\* funcNames.add(func.name), in the else branch
FuncNamesAdd(seen, name) == seen \cup {name}

RECURSIVE UniqueFuncLoop(_, _, _, _, _)
\* for (const func of compUnit.functions) from function i on
UniqueFuncLoop(functions, self, i, seen, acc) ==
    IF i > Len(functions) THEN [raised |-> FALSE, diags |-> acc, seen |-> seen]
    ELSE LET func == functions[i]
             message == L_DupFuncPre \o func.name \o L_DupFuncPost
             diag == Accept("error", getSafeEnhancedMessage(message).value,
                            self \o <<i>>, "name", ERROR_CODES.DUPLICATE_FUNCTION,
                            [category |-> "FUNC", functionName |-> func.name])
         IN  IF func.name \in seen
             THEN UniqueFuncLoop(functions, self, i + 1, seen, Append(acc, diag))
             ELSE UniqueFuncLoop(functions, self, i + 1, FuncNamesAdd(seen, func.name), acc)

checkUniqueFuncName(compUnit, self, old) ==
    UniqueFuncLoop(compUnit.functions, self, 1, NewFuncNamesSet(old), <<>>)

\* block?.blockItems is there
HasBlockItems(node) == node.type = "Block"

\* the flag the while case hands to the loop body
WhileBodyFlag(inLoop) == TRUE

\* the flag the if case hands to its branches
BranchFlag(inLoop) == inLoop

BreakDiag(stmt, path) ==
    Accept("error",
           getSafeEnhancedMessage(IF stmt.type = "Stmtbreak" THEN L_BreakMsg
                                  ELSE L_ContinueMsg).value,
           path, "undefined", ERROR_CODES.INVALID_BREAK_CONTINUE, [category |-> "CTRL"])

RECURSIVE checkStatementsInBlock(_, _, _)
RECURSIVE CheckItems(_, _, _, _)
\* the for loop over block.blockItems from item i on; path is the block's path
CheckItems(block, inLoop, path, i) ==
    IF i > Len(block.blockItems) THEN <<>>
    ELSE LET stmt == block.blockItems[i].blockStmt
             here == path \o <<i>>
             mine ==
                 IF stmt.type = "undefined" THEN <<>>
                 ELSE IF stmt.type \in {"Stmtbreak", "Stmtcontinue"}
                      THEN IF ~inLoop THEN <<BreakDiag(stmt, here)>> ELSE <<>>
                 ELSE IF stmt.type = "Stmtwhile"
                      THEN checkStatementsInBlock(stmt.whilestmt, WhileBodyFlag(inLoop),
                                                  here \o <<1>>)
                 ELSE IF stmt.type = "Stmtelif"
                      THEN checkStatementsInBlock(stmt.ifstmt, BranchFlag(inLoop), here \o <<1>>)
                           \o (IF stmt.elsestmt.type # "undefined"
                               THEN checkStatementsInBlock(stmt.elsestmt, BranchFlag(inLoop),
                                                           here \o <<2>>)
                               ELSE <<>>)
                 ELSE IF HasBlockItems(stmt)
                      THEN checkStatementsInBlock(stmt, inLoop, here)
                 ELSE <<>>
         IN  mine \o CheckItems(block, inLoop, path, i + 1)

checkStatementsInBlock(block, inLoop, path) ==
    IF ~HasBlockItems(block) THEN <<>> ELSE CheckItems(block, inLoop, path, 1)

checkBreakContinueInNonLoopBlocks(funcDef, self) ==
    Returned(checkStatementsInBlock(funcDef.block, FALSE, self))

\* the earlier copy of the class: the method's body is commented out
checkBreakContinueInNonLoopBlocks_earlier(funcDef, self) == Returned(<<>>)

\* the two copies of FuncValidator the repository holds; every other method is
\* the same in both
FuncValidatorCopies == {"earlier", "later"}

BreakContinueCheck(copy, funcDef, self) ==
    IF copy = "earlier" THEN checkBreakContinueInNonLoopBlocks_earlier(funcDef, self)
    ELSE checkBreakContinueInNonLoopBlocks(funcDef, self)

\* a seeded fault: too few arguments are the only mismatch
CountsFallShort(declared, actual) == declared > actual

\* expectedParamCount !== actualParamCount
CountsDiffer(declared, actual) == declared # actual

checkFunctionParameterMismatch(func, self) ==
    LET declared == Len(DeclaredParams(func.funcname))
        actual   == Len(func.funcRparams)
        message  == L_ParamPre \o ToDigits(declared) \o L_ParamMid \o ToDigits(actual)
                        \o L_ParamPost
    IN  IF CountsDiffer(declared, actual)
        THEN Returned(<<Accept("error", getSafeEnhancedMessage(message).value,
                               self, "funcRparams", ERROR_CODES.PARAMETER_MISMATCH,
                               [category |-> "FUNC", functionName |-> func.funcname.refText,
                                expectedCount |-> declared, actualCount |-> actual])>>)
        ELSE Returned(<<>>)

RECURSIVE LastTopLevelReturn(_, _)
\* block.blockItems.forEach: the last top-level return statement, 0 when none
LastTopLevelReturn(items, i) ==
    IF i = 0 THEN 0
    ELSE IF items[i].blockStmt.type = "Stmtreturn" THEN i
    ELSE LastTopLevelReturn(items, i - 1)

checkFunctionReturnType(func, self) ==
    LET returnType == func.functype
        items      == func.block.blockItems
        last       == LastTopLevelReturn(items, Len(items))
        hasReturn  == last # 0
        \* returnStmt.tobereturn of the last one; null when there is no return
        empty      == hasReturn /\ ~items[last].blockStmt.tobereturn
        data       == [category |-> "FUNC", returnType |-> returnType,
                       functionName |-> func.name]
    IN  IF ~hasReturn /\ returnType # T_void
        THEN Returned(<<Accept("error",
                 getSafeEnhancedMessage(L_RetPre \o returnType \o L_MissRetPost).value,
                 self, "functype", ERROR_CODES.MISSING_RETURN, data)>>)
        ELSE IF hasReturn /\ returnType # T_void /\ empty
        THEN Returned(<<Accept("error",
                 getSafeEnhancedMessage(L_RetPre \o returnType \o L_EmptyRetPost).value,
                 self \o <<0>>, "undefined", ERROR_CODES.EMPTY_RETURN, data)>>)
        ELSE IF hasReturn /\ returnType = T_void /\ ~empty
        THEN Returned(<<Accept("error", getSafeEnhancedMessage(L_VoidRetMsg).value,
                 self \o <<0>>, "undefined", ERROR_CODES.VOID_RETURN_VALUE,
                 [category |-> "FUNC", functionName |-> func.name])>>)
        ELSE Returned(<<>>)

checkDefTypeMatchFuncReturnType(funcFparam, self) ==
    IF TargetType(funcFparam.funcname) = T_void
    THEN Returned(<<Accept("error", getSafeEnhancedMessage(L_VoidAssignMsg).value,
                           funcFparam.container, "undefined", ERROR_CODES.VOID_ASSIGNMENT,
                           [category |-> "TYPE"])>>)
    ELSE Returned(<<>>)

---------------------------------------------------------------------------
(* The ASTs and requests explored: what the parser and the client can hand  *)
(* to the handlers, within the bounds                                       *)

\* every sequence over S of length at most n
SeqsUpTo(S, n) == UNION {[1..k -> S] : k \in 0..n}

N_a == <<"a">>

N_b == <<"b">>

N_arr == <<"a", "r", "r">>

N_f == <<"f">>

N_g == <<"g">>

N_foo == <<"f", "o", "o">>

VarNames == {N_a, N_b}

FuncNameSet == {N_f, N_g}

\* a VarDef node: name, the dimension sizes, the initializers
VarDef(name, index, init) == [type |-> "VarDef", name |-> name, index |-> index, Init |-> init]

\* a dimension whose size is the literal n, and one whose size is not a literal
LiteralSize(n) == [value |-> ToDigits(n)]

NonLiteralSize == [value |-> Undefined]

\* an initializer list of n plain elements
InitList(n) == [manyInit |-> [k \in 1..n |-> ToDigits(k)]]

\* a Decl node over the plain variables named
DeclOf(names) == [type |-> "Decl", defs |-> [k \in 1..Len(names) |-> VarDef(names[k], <<>>, <<>>)]]

DeclGroups == {DeclOf(names) : names \in SeqsUpTo(VarNames, MaxNames)}

\* a CompUnit node over the functions named
CompUnitOf(names) == [type |-> "CompUnit", functions |-> [k \in 1..Len(names) |-> [name |-> names[k]]]]

CompUnits == {CompUnitOf(names) : names \in SeqsUpTo(FuncNameSet, MaxNames)}

\* array definitions: no dimension, a literal or non-literal first dimension, an
\* optional second dimension smaller or larger than every list, no initializer
\* or a list of 0..MaxCount+1 elements
ArrayDefs ==
    {VarDef(N_arr, index, init) :
        index \in {<<>>} \cup {<<LiteralSize(n)>> : n \in 0..MaxCount}
                         \cup {<<LiteralSize(n), LiteralSize(m)>> :
                                   n \in 0..MaxCount, m \in {0, MaxCount + 2}}
                         \cup {<<NonLiteralSize>>},
        init \in {<<>>} \cup {<<InitList(n)>> : n \in 0..(MaxCount + 1)}}

\* a resolved reference to a function with n parameters, and references
FuncTarget(n, functype) ==
    [resolved |-> TRUE, type |-> "FuncDef",
     funcFparam |-> [k \in 1..n |-> T_int \o <<" ", "p">> \o ToDigits(k)],
     functype |-> functype]

FuncRef(text, target) == [ref |-> target, refText |-> text]

\* a FuncRParams node: the call's target and its n arguments
FuncRParams(funcname, n, container) ==
    [type |-> "FuncRParams", funcname |-> funcname,
     funcRparams |-> [k \in 1..n |-> ToDigits(k)], container |-> container]

Calls ==
    {FuncRParams(FuncRef(N_foo, target), n, <<0>>) :
        target \in {NoRef} \cup {FuncTarget(d, t) : d \in 0..MaxCount, t \in {T_int, T_void}},
        n \in 0..MaxCount}

\* where a call stands in its statement
CallPositions == {"statement", "assignment", "expression"}

FunctionCalls ==
    {[type |-> "FunctionCall", funcname |-> FuncRef(name, target)] :
        name \in {N_foo, N_f}, target \in {NoRef, FuncTarget(0, T_int)}}

\* variable uses: unresolved, or resolved to a parameter, a constant, a variable
VarTargets ==
    {NoRef,
     [resolved |-> TRUE, type |-> "FuncFParam", btype |-> T_int],
     [resolved |-> TRUE, type |-> "ConstDef", containerText |-> <<"c", "o", "n", "s", "t", " ">> \o T_int \o <<" ", "a", "=", "1">>],
     [resolved |-> TRUE, type |-> "VarDef", containerText |-> T_int \o <<" ", "a", "=", "1">>]}

LVals == {[type |-> "VariableLVal", value |-> [ref |-> t, refText |-> n]] :
             t \in VarTargets, n \in VarNames}

\* statements and blocks
Stmt(type) == [type |-> type]

Item(stmt) == [blockStmt |-> stmt]

\* a block item that is a declaration: it has no blockStmt
DeclItem == Item(NoNode)

Block(items) == [type |-> "Block", blockItems |-> items]

While(body) == [type |-> "Stmtwhile", whilestmt |-> body]

IfElse(then, else) == [type |-> "Stmtelif", ifstmt |-> then, elsestmt |-> else]

Return(hasExpression) == [type |-> "Stmtreturn", tobereturn |-> hasExpression]

LeafStmts == {Stmt("Stmtbreak"), Stmt("Stmtcontinue"), Stmt("Stmtexp")}

\* blocks of at most one item, nested three deep: leaves, then one level of
\* while / if / else / inner block around them, then one more
InnerBlocks == {Block(<<>>)} \cup {Block(<<Item(s)>>) : s \in LeafStmts}

MiddleStmts ==
    LeafStmts \cup {While(b) : b \in InnerBlocks}
              \cup {IfElse(b, e) : b \in InnerBlocks, e \in {NoNode} \cup InnerBlocks}
              \cup InnerBlocks

MiddleBlocks == {Block(<<>>)} \cup {Block(<<Item(s)>>) : s \in MiddleStmts}

OuterStmts ==
    MiddleStmts \cup {While(b) : b \in MiddleBlocks}
                \cup {IfElse(b, e) : b \in MiddleBlocks, e \in {NoNode} \cup InnerBlocks}
                \cup MiddleBlocks

\* function bodies for the break/continue check: a declaration, then a statement
ControlBodies == {Block(<<DeclItem, Item(s)>>) : s \in OuterStmts}

FuncDef(name, functype, block) ==
    [type |-> "FuncDef", name |-> name, functype |-> functype, block |-> block]

\* function bodies for the return check: top-level and nested returns
ReturnStmts == {Stmt("Stmtexp"), Return(TRUE), Return(FALSE),
                While(Block(<<Item(Return(TRUE))>>)),
                IfElse(Block(<<Item(Return(TRUE))>>), NoNode)}

ReturnBodies == {Block(<<>>)} \cup {Block(<<Item(s)>>) : s \in ReturnStmts}
                    \cup {Block(<<Item(s), Item(t)>>) : s \in ReturnStmts, t \in ReturnStmts}

ReturnFuncs == {FuncDef(N_f, t, b) : t \in {T_int, T_float, T_void}, b \in ReturnBodies}

---------------------------------------------------------------------------
(* The handlers called one at a time: the server is idle, a handler runs on  *)
(* an input and leaves its result, and the result is handed back             *)

\* the texts handed to the enrichment lookup: the empty text, the table keys,
\* the validators' texts, a text that holds two keys, the later entry's first,
\* and short texts over the alphabet below
MessageAlphabet == {"a", "\"", ".", "*", "("}

ValidatorMessages ==
    {L_DupDeclPre \o N_a \o L_QuoteStop,
     L_ArrPre \o N_arr \o L_ArrPost,
     L_UndefVarPre \o N_a \o L_QuoteStop,
     L_UndefFuncPre \o N_foo \o L_QuoteStop,
     L_DupFuncPre \o N_f \o L_DupFuncPost,
     L_BreakMsg, L_ContinueMsg, L_VoidRetMsg, L_VoidAssignMsg,
     L_ParamPre \o <<"2">> \o L_ParamMid \o <<"1">> \o L_ParamPost,
     L_RetPre \o T_int \o L_MissRetPost,
     L_RetPre \o T_int \o L_EmptyRetPost}

Messages ==
    SeqsUpTo(MessageAlphabet, MaxText)
        \cup {ERROR_DETAILS[k].key : k \in 1..Len(ERROR_DETAILS)}
        \cup {<<"\"">> \o ERROR_DETAILS[k].key \o <<"\"">> : k \in 1..Len(ERROR_DETAILS)}
        \cup ValidatorMessages
        \cup {ERROR_DETAILS[14].key \o <<" ">> \o ERROR_DETAILS[7].key}

\* no input and no result: the fields of arg and out are named after each
\* handler's parameters, so that values of different handlers never meet
Nothing == [nothing |-> TRUE]

\* no document is open
NoDocument == [copy |-> "later", nodes |-> <<>>]

\* debuggerService.currentSession is null
NoSession == [session |-> "null"]

\* no validation run yet
NoOutcome == [diags |-> <<>>, faults |-> 0]

Init ==
    /\ op = "idle"
    /\ arg = Nothing
    /\ out = Nothing
    /\ ast = NoDocument
    /\ diagnostics = NoOutcome
    /\ prevDiagnostics = NoOutcome
    /\ runs = 0
    /\ reported = {}
    /\ funcNames = {}
    /\ currentSession = NoSession
    /\ timers = <<>>
    /\ started = 0

\* a handler is entered on input a and leaves result r
Call(name, a, r) ==
    /\ op = "idle"
    /\ op' = name
    /\ arg' = a
    /\ out' = r

DocumentVars == <<ast, diagnostics, prevDiagnostics, runs>>

GetSafeEnhancedMessage ==
    \E m \in Messages :
        /\ Call("getSafeEnhancedMessage", [message |-> m], getSafeEnhancedMessage(m))
        /\ UNCHANGED <<DocumentVars, reported, funcNames, DebuggerVars>>

GetEnhancedMessage ==
    \E m \in Messages :
        /\ Call("getEnhancedMessage", [message |-> m], getEnhancedMessage(m))
        /\ UNCHANGED <<DocumentVars, reported, funcNames, DebuggerVars>>

GetErrorCategory ==
    \E m \in Messages :
        /\ Call("getErrorCategory", [message |-> m], getErrorCategory(m))
        /\ UNCHANGED <<DocumentVars, reported, funcNames, DebuggerVars>>

CheckUniqueDef ==
    \E decl \in DeclGroups :
        LET r == checkUniqueDef(decl, <<0>>, reported)
        IN  /\ Call("checkUniqueDef", [constDecl |-> decl], r)
            /\ reported' = r.seen
            /\ UNCHANGED <<DocumentVars, funcNames, DebuggerVars>>

HoverTipsArray ==
    \E arr \in ArrayDefs :
        /\ Call("hoverTipsArray", [arr |-> arr], hoverTipsArray(arr, <<0>>))
        /\ UNCHANGED <<DocumentVars, reported, funcNames, DebuggerVars>>

HoverTipsLval ==
    \E lval \in LVals :
        /\ Call("hoverTipsLval", [lval |-> lval], hoverTipsLval(lval, <<0>>))
        /\ UNCHANGED <<DocumentVars, reported, funcNames, DebuggerVars>>

CheckVariableDeclared ==
    \E lval \in LVals :
        /\ Call("checkVariableDeclared", [lval |-> lval], checkVariableDeclared(lval, <<0>>))
        /\ UNCHANGED <<DocumentVars, reported, funcNames, DebuggerVars>>

HoverTipsFunc ==
    \E e \in Calls :
        /\ Call("hoverTipsFunc", [func |-> e], hoverTipsFunc(e, <<1>>))
        /\ UNCHANGED <<DocumentVars, reported, funcNames, DebuggerVars>>

CheckFunctionDeclared ==
    \E e \in FunctionCalls :
        /\ Call("checkFunctionDeclared", [funcCall |-> e], checkFunctionDeclared(e, <<1>>))
        /\ UNCHANGED <<DocumentVars, reported, funcNames, DebuggerVars>>

CheckUniqueFuncName ==
    \E unit \in CompUnits :
        LET r == checkUniqueFuncName(unit, <<0>>, funcNames)
        IN  /\ Call("checkUniqueFuncName", [compUnit |-> unit], r)
            /\ funcNames' = r.seen
            /\ UNCHANGED <<DocumentVars, reported, DebuggerVars>>

CheckBreakContinueInNonLoopBlocks ==
    \E body \in ControlBodies, copy \in FuncValidatorCopies :
        LET f == FuncDef(N_f, T_void, body)
        IN  /\ Call("checkBreakContinueInNonLoopBlocks", [copy |-> copy, funcDef |-> f],
                    BreakContinueCheck(copy, f, <<0>>))
            /\ UNCHANGED <<DocumentVars, reported, funcNames, DebuggerVars>>

CheckFunctionParameterMismatch ==
    \E e \in Calls :
        /\ Call("checkFunctionParameterMismatch", [func |-> e], checkFunctionParameterMismatch(e, <<1>>))
        /\ UNCHANGED <<DocumentVars, reported, funcNames, DebuggerVars>>

CheckFunctionReturnType ==
    \E f \in ReturnFuncs :
        /\ Call("checkFunctionReturnType", [funcDef |-> f], checkFunctionReturnType(f, <<0>>))
        /\ UNCHANGED <<DocumentVars, reported, funcNames, DebuggerVars>>

\* the call stands as a statement of its own, on the right of an assignment,
\* or inside an expression; the check is handed the call node alone
CheckDefTypeMatchFuncReturnType ==
    \E e \in Calls, position \in CallPositions :
        /\ Call("checkDefTypeMatchFuncReturnType", [func |-> e, position |-> position],
                checkDefTypeMatchFuncReturnType(e, <<1>>))
        /\ UNCHANGED <<DocumentVars, reported, funcNames, DebuggerVars>>

\* the result is handed back and the server waits for the next call
Respond ==
    /\ op # "idle"
    /\ op' = "idle"
    /\ arg' = Nothing
    /\ out' = Nothing
    /\ UNCHANGED <<DocumentVars, reported, funcNames, DebuggerVars>>

Next ==
    \/ GetSafeEnhancedMessage
    \/ GetEnhancedMessage
    \/ GetErrorCategory
    \/ CheckUniqueDef
    \/ HoverTipsArray
    \/ HoverTipsLval
    \/ CheckVariableDeclared
    \/ HoverTipsFunc
    \/ CheckFunctionDeclared
    \/ CheckUniqueFuncName
    \/ CheckBreakContinueInNonLoopBlocks
    \/ CheckFunctionParameterMismatch
    \/ CheckFunctionReturnType
    \/ CheckDefTypeMatchFuncReturnType
    \/ Respond

Spec == Init /\ [][Next]_vars

---------------------------------------------------------------------------
(* Properties of the handlers called one at a time *)

\* the diagnostics of a result that sit on the node at the path given
DiagsOn(diags, node) == {k \in 1..Len(diags) : diags[k].node = node}

\* the positions of a list of named things whose name occurred earlier in it
LaterOccurrences(things) ==
    {i \in 1..Len(things) : \E j \in 1..(i - 1) : things[j].name = things[i].name}

\* C1: checkUniqueDef emits exactly one DUPLICATE_DECLARATION for each
\* definition of a declaration group whose name occurred earlier in the group,
\* attached to that later definition, and none for a first occurrence.
C1_UniqueDef ==
    op = "checkUniqueDef" =>
        /\ ~out.raised
        /\ Len(out.diags) = Cardinality(LaterOccurrences(arg.constDecl.defs))
        /\ \A k \in 1..Len(out.diags) :
               out.diags[k].code = ERROR_CODES.DUPLICATE_DECLARATION
        /\ \A i \in 1..Len(arg.constDecl.defs) :
               Cardinality(DiagsOn(out.diags, <<0, i>>))
                   = IF i \in LaterOccurrences(arg.constDecl.defs) THEN 1 ELSE 0

\* the group [a, a, b] was checked: one diagnostic, on the second a
C1_Witness ==
    /\ op = "checkUniqueDef"
    /\ arg.constDecl = DeclOf(<<N_a, N_a, N_b>>)
    /\ Len(out.diags) = 1
    /\ out.diags[1].node = <<0, 2>>
    /\ out.diags[1].code = ERROR_CODES.DUPLICATE_DECLARATION

\* C2: checkUniqueFuncName emits exactly one DUPLICATE_FUNCTION for each
\* function of the top-level list whose name occurred earlier in the list,
\* attached to that later function, and none for a first occurrence.
C2_UniqueFuncName ==
    op = "checkUniqueFuncName" =>
        /\ ~out.raised
        /\ Len(out.diags) = Cardinality(LaterOccurrences(arg.compUnit.functions))
        /\ \A k \in 1..Len(out.diags) :
               out.diags[k].code = ERROR_CODES.DUPLICATE_FUNCTION
        /\ \A i \in 1..Len(arg.compUnit.functions) :
               Cardinality(DiagsOn(out.diags, <<0, i>>))
                   = IF i \in LaterOccurrences(arg.compUnit.functions) THEN 1 ELSE 0

\* the list [f, g, f] was checked: one diagnostic, on the second f
C2_Witness ==
    /\ op = "checkUniqueFuncName"
    /\ arg.compUnit = CompUnitOf(<<N_f, N_g, N_f>>)
    /\ Len(out.diags) = 1
    /\ out.diags[1].node = <<0, 3>>
    /\ out.diags[1].code = ERROR_CODES.DUPLICATE_FUNCTION

\* the array definitions with a literal first dimension and an initializer list
HasLiteralSizeAndList(arr) ==
    /\ Len(arr.index) >= 1
    /\ \E n \in 0..MaxCount : arr.index[1] = LiteralSize(n)
    /\ Len(arr.Init) >= 1

DeclaredSize(arr) == CHOOSE n \in 0..MaxCount : arr.index[1] = LiteralSize(n)

C5_ParameterMismatch ==
    (op = "checkFunctionParameterMismatch" /\ arg.func.funcname.ref.resolved) =>
        LET expected == Len(arg.func.funcname.ref.funcFparam)
            actual   == Len(arg.func.funcRparams)
        IN  /\ ~out.raised
            /\ expected = actual => out.diags = <<>>
            /\ expected # actual =>
                /\ Len(out.diags) = 1
                /\ out.diags[1].code = ERROR_CODES.PARAMETER_MISMATCH
                /\ out.diags[1].node = <<1>>
                /\ out.diags[1].data.expectedCount = expected
                /\ out.diags[1].data.actualCount = actual

\* foo(1, 2) calling a foo of three parameters was checked
C5_Witness ==
    /\ op = "checkFunctionParameterMismatch"
    /\ arg.func.funcname.ref.resolved
    /\ Len(arg.func.funcname.ref.funcFparam) = 3
    /\ Len(arg.func.funcRparams) = 2
    /\ Len(out.diags) = 1
    /\ out.diags[1].data.expectedCount = 3
    /\ out.diags[1].data.actualCount = 2

\* positions below a function body: item indices, and 1 / 2 for the body of a
\* while or the branches of an if
Paths == SeqsUpTo(1..2, 5)

RECURSIVE NodeAt(_, _)
\* the block or statement a path leads to below the node; NoNode when nowhere
NodeAt(node, path) ==
    IF path = <<>> THEN node
    ELSE IF node.type = "Block"
         THEN IF Head(path) \in 1..Len(node.blockItems)
              THEN NodeAt(node.blockItems[Head(path)].blockStmt, Tail(path))
              ELSE NoNode
    ELSE IF node.type = "Stmtwhile"
         THEN IF Head(path) = 1 THEN NodeAt(node.whilestmt, Tail(path)) ELSE NoNode
    ELSE IF node.type = "Stmtelif"
         THEN IF Head(path) = 1 THEN NodeAt(node.ifstmt, Tail(path))
              ELSE NodeAt(node.elsestmt, Tail(path))
    ELSE NoNode

\* the break and continue statements of a function body
BreakContinuePaths(body) ==
    {p \in Paths : NodeAt(body, p).type \in {"Stmtbreak", "Stmtcontinue"}}

\* some while statement lies on the way to the statement
InsideWhile(body, p) ==
    \E k \in 0..(Len(p) - 1) : NodeAt(body, SubSeq(p, 1, k)).type = "Stmtwhile"

Unenclosed(body) == {p \in BreakContinuePaths(body) : ~InsideWhile(body, p)}

\* exactly the unenclosed break and continue statements carry one diagnostic
ReportsExactlyUnenclosed(funcDef, result) ==
    /\ ~result.raised
    /\ Len(result.diags) = Cardinality(Unenclosed(funcDef.block))
    /\ {result.diags[k].node : k \in 1..Len(result.diags)}
           = {<<0>> \o p : p \in Unenclosed(funcDef.block)}
    /\ \A k \in 1..Len(result.diags) :
           result.diags[k].code = ERROR_CODES.INVALID_BREAK_CONTINUE

\* C8: checkBreakContinueInNonLoopBlocks emits INVALID_BREAK_CONTINUE for a
\* break or continue statement exactly when no while-body encloses it inside
\* the function body, at any depth and through if/else branches and blocks.
C8_BreakContinue ==
    op = "checkBreakContinueInNonLoopBlocks" => ReportsExactlyUnenclosed(arg.funcDef, out)

\* what the later copy of the class does: the property holds of it
C8_LaterCopy ==
    (op = "checkBreakContinueInNonLoopBlocks" /\ arg.copy = "later")
        => ReportsExactlyUnenclosed(arg.funcDef, out)

\* the later copy ran on a body with a break under if under while and reported
\* nothing, and on a break under if outside every while and reported it
C8_LaterCopyEnclosed ==
    /\ op = "checkBreakContinueInNonLoopBlocks"
    /\ arg.copy = "later"
    /\ arg.funcDef.block.blockItems[2].blockStmt
           = While(Block(<<Item(IfElse(Block(<<Item(Stmt("Stmtbreak"))>>), NoNode))>>))
    /\ out.diags = <<>>

C8_LaterCopyReported ==
    /\ op = "checkBreakContinueInNonLoopBlocks"
    /\ arg.copy = "later"
    /\ arg.funcDef.block.blockItems[2].blockStmt
           = IfElse(Block(<<Item(Stmt("Stmtbreak"))>>), NoNode)
    /\ Len(out.diags) = 1
    /\ out.diags[1].node = <<0, 2, 1, 1>>

\* a text that contains no table key and matches no quoted key's pattern
MatchesNoEntry(message) ==
    \A k \in 1..Len(ERROR_DETAILS) :
        LET key == ERROR_DETAILS[k].key
        IN  /\ ~Includes(message, key)
            /\ ~(/\ StartsWith(key, <<"\"">>)
                 /\ EndsWith(key, <<"\"">>)
                 /\ PatternValid(SubSeq(key, 2, Len(key) - 1))
                 /\ Match(CompilePattern(SubSeq(key, 2, Len(key) - 1)), message).ok)

\* C10: getSafeEnhancedMessage never raises; a non-empty text that matches no
\* table entry comes back unchanged, and the empty text comes back as the
\* fixed text "未知错误".
C10_SafeEnhanced ==
    op = "getSafeEnhancedMessage" =>
        /\ ~out.raised
        /\ (arg.message # <<>> /\ MatchesNoEntry(arg.message)) => out.value = arg.message
        /\ arg.message = <<>> => out.value = L_Unknown

\* a text of regex metacharacters that matches no entry came back unchanged
C10_Witness ==
    /\ op = "getSafeEnhancedMessage"
    /\ arg.message = <<"(", "*">>
    /\ MatchesNoEntry(arg.message)
    /\ ~out.raised
    /\ out.value = arg.message

\* C10 as stated: getSafeEnhancedMessage never raises, and every text that
\* matches no table entry comes back unchanged.
C10_AsStated ==
    op = "getSafeEnhancedMessage" =>
        /\ ~out.raised
        /\ MatchesNoEntry(arg.message) => out.value = arg.message

---------------------------------------------------------------------------
(* Validation runs: every registered check over every node of a document *)

\* the checks registered for a node's type, in registration order, applied to
\* the node at position self
NodeResults(node, self, copy, rep, fn) ==
    CASE node.type = "Decl" -> <<checkUniqueDef(node, self, rep)>>
      [] node.type = "VarDef" -> <<hoverTipsArray(node, self)>>
      [] node.type = "VariableLVal" ->
            <<hoverTipsLval(node, self), checkVariableDeclared(node, self)>>
      [] node.type = "FuncRParams" ->
            <<hoverTipsFunc(node, self), checkFunctionParameterMismatch(node, self),
              checkDefTypeMatchFuncReturnType(node, self)>>
      [] node.type = "FunctionCall" -> <<checkFunctionDeclared(node, self)>>
      [] node.type = "CompUnit" -> <<checkUniqueFuncName(node, self, fn)>>
      [] node.type = "FuncDef" ->
            <<BreakContinueCheck(copy, node, self), checkFunctionReturnType(node, self)>>

RECURSIVE RunChecks(_, _, _)
\* the run from node i on; acc holds the diagnostics accepted so far, the
\* number of checks that threw, and the sets the duplicate checks left behind
RunChecks(doc, i, acc) ==
    IF i > Len(doc.nodes) THEN acc
    ELSE The({RunChecks(doc, i + 1, next) :
                 next \in {The({[diags     |-> acc.diags \o Concat([k \in 1..Len(rs) |-> rs[k].diags]),
                                 faults    |-> acc.faults
                                                 + Cardinality({k \in 1..Len(rs) : rs[k].raised}),
                                 reported  |-> IF doc.nodes[i].type = "Decl" THEN rs[1].seen
                                               ELSE acc.reported,
                                 funcNames |-> IF doc.nodes[i].type = "CompUnit"
                                               THEN rs[1].seen ELSE acc.funcNames] :
                                  rs \in {NodeResults(doc.nodes[i], <<i>>, doc.copy,
                                                      acc.reported, acc.funcNames)}})}})

\* the functions, declarations and uses documents are put together from
FuncPool ==
    {FuncDef(N_f, T_int, Block(<<Item(Return(TRUE))>>)),
     FuncDef(N_f, T_void, Block(<<Item(Stmt("Stmtbreak")), Item(Return(TRUE))>>)),
     FuncDef(N_g, T_int, Block(<<DeclItem>>)),
     FuncDef(N_g, T_float,
             Block(<<Item(While(Block(<<Item(Stmt("Stmtcontinue"))>>))), Item(Return(FALSE))>>))}

DeclPool ==
    {DeclOf(<<N_a, N_b>>),
     DeclOf(<<N_a, N_b, N_a>>),
     [type |-> "Decl", defs |-> <<VarDef(N_arr, <<LiteralSize(2)>>, <<InitList(3)>>)>>],
     [type |-> "Decl", defs |-> <<VarDef(N_arr, <<LiteralSize(2)>>, <<>>),
                                  VarDef(N_arr, <<>>, <<>>)>>]}

UsePool ==
    {<<>>,
     <<[type |-> "VariableLVal", value |-> [ref |-> NoRef, refText |-> N_a]]>>,
     <<FuncRParams(FuncRef(N_foo, FuncTarget(3, T_int)), 2, <<0>>)>>,
     <<FuncRParams(FuncRef(N_foo, FuncTarget(1, T_void)), 1, <<0>>),
       [type |-> "FunctionCall", funcname |-> FuncRef(N_foo, NoRef)]>>}

\* the nodes of a document in traversal order: the root, its functions, the
\* declaration group and its definitions, the uses
Traversal(funcs, decl, uses) ==
    <<[type |-> "CompUnit", functions |-> funcs]>> \o funcs \o <<decl>> \o decl.defs \o uses

\* programs whose references are all resolved: function lists without a break
\* or continue and with a top-level return of a value in every non-void
\* function, declarations without a repeated name, calls with the declared
\* number of arguments to functions that return a value
LinkedFuncLists ==
    {<<>>,
     <<FuncDef(N_f, T_int, Block(<<DeclItem, Item(Return(TRUE))>>))>>,
     <<FuncDef(N_f, T_int, Block(<<Item(Return(TRUE))>>)),
       FuncDef(N_g, T_void, Block(<<Item(Stmt("Stmtexp")), Item(Return(FALSE))>>))>>,
     <<FuncDef(N_f, T_float,
               Block(<<Item(IfElse(Block(<<Item(Return(TRUE))>>), NoNode)), Item(Return(TRUE))>>)),
       FuncDef(N_g, T_void, Block(<<Item(While(Block(<<Item(Stmt("Stmtexp"))>>)))>>))>>,
     <<FuncDef(N_f, T_int, Block(<<Item(Return(TRUE)), Item(Return(FALSE))>>))>>,
     <<FuncDef(N_g, T_void, Block(<<Item(Return(TRUE))>>))>>}

LinkedDecls ==
    {DeclOf(<<N_a, N_b>>),
     [type |-> "Decl", defs |-> <<VarDef(N_a, <<>>, <<>>),
                                  VarDef(N_arr, <<LiteralSize(2)>>, <<InitList(2)>>)>>],
     [type |-> "Decl", defs |-> <<VarDef(N_arr, <<NonLiteralSize>>, <<InitList(3)>>)>>],
     [type |-> "Decl", defs |-> <<VarDef(N_arr, <<LiteralSize(3)>>, <<>>)>>],
     [type |-> "Decl", defs |-> <<VarDef(N_arr, <<LiteralSize(2)>>, <<InitList(3)>>)>>]}

LinkedUses ==
    {<<>>,
     <<[type |-> "VariableLVal",
        value |-> [ref |-> [resolved |-> TRUE, type |-> "FuncFParam", btype |-> T_int],
                   refText |-> N_a]]>>,
     <<[type |-> "VariableLVal",
        value |-> [ref |-> [resolved |-> TRUE, type |-> "VarDef",
                            containerText |-> T_int \o <<" ", "a", "=", "1">>],
                   refText |-> N_a]],
       FuncRParams(FuncRef(N_f, FuncTarget(2, T_int)), 2, <<0>>)>>,
     <<[type |-> "FunctionCall", funcname |-> FuncRef(N_f, FuncTarget(0, T_int))],
       FuncRParams(FuncRef(N_f, FuncTarget(0, T_int)), 0, <<0>>)>>}

LinkedDocuments ==
    {[copy |-> copy, nodes |-> Traversal(funcs, decl, uses)] :
        copy \in FuncValidatorCopies, funcs \in LinkedFuncLists,
        decl \in LinkedDecls, uses \in LinkedUses}

Documents ==
    {[copy |-> copy, nodes |-> Traversal(funcs, decl, uses)] :
        copy \in FuncValidatorCopies, funcs \in SeqsUpTo(FuncPool, MaxFuncs),
        decl \in DeclPool, uses \in UsePool}
      \cup LinkedDocuments

\* a document is opened: parsed and linked
Parse ==
    \E doc \in Documents :
        /\ ast = NoDocument
        /\ ast' = doc
        /\ runs' = 0
        /\ diagnostics' = NoOutcome
        /\ prevDiagnostics' = NoOutcome
        /\ UNCHANGED <<op, arg, out, reported, funcNames, DebuggerVars>>

\* the document is validated once more
Validate ==
    /\ ast # NoDocument
    /\ runs < MaxRuns
    /\ LET r == RunChecks(ast, 1, [diags |-> <<>>, faults |-> 0,
                                   reported |-> reported, funcNames |-> funcNames])
       IN  /\ diagnostics' = [diags |-> r.diags, faults |-> r.faults]
           /\ reported' = r.reported
           /\ funcNames' = r.funcNames
    /\ prevDiagnostics' = diagnostics
    /\ runs' = runs + 1
    /\ UNCHANGED <<op, arg, out, ast, DebuggerVars>>

RunNext ==
    \/ Parse
    \/ Validate

RunSpec == Init /\ [][RunNext]_vars

\* C9: running the registered checks twice on the same unchanged AST produces
\* the same sequence of diagnostics (codes, messages, target nodes, order).
C9_SameDiagnostics ==
    runs >= 2 => diagnostics = prevDiagnostics

\* a document with duplicate functions and definitions was validated twice and
\* both runs reported them, with the same diagnostics
C9_Witness ==
    /\ runs = 2
    /\ diagnostics = prevDiagnostics
    /\ \E k \in 1..Len(diagnostics.diags) :
           diagnostics.diags[k].code = ERROR_CODES.DUPLICATE_FUNCTION
    /\ \E k \in 1..Len(diagnostics.diags) :
           diagnostics.diags[k].code = ERROR_CODES.DUPLICATE_DECLARATION

---------------------------------------------------------------------------
(* Quick fixes: SysyQuickFixProvider over a text document *)

\* a Position and a Range of the language server protocol (both 0-based)
Position(line, character) == [line |-> line, character |-> character]

Range(start, end) == [start |-> start, end |-> end]

RECURSIVE LineOffsetsFrom(_, _)
LineOffsetsFrom(text, i) ==
    IF i > Len(text) THEN <<>>
    ELSE IF text[i] = "\n" THEN <<i>> \o LineOffsetsFrom(text, i + 1)
    ELSE LineOffsetsFrom(text, i + 1)

\* TextDocument.getLineOffsets: the 0-based offset at which each line starts
LineOffsets(text) == <<0>> \o LineOffsetsFrom(text, 1)

\* TextDocument.offsetAt: a line past the end is the end of the text, a
\* character past the end of its line is the start of the next line
OffsetAt(text, position) ==
    LET lineOffsets == LineOffsets(text)
        line == position.line
    IN  IF line >= Len(lineOffsets) THEN Len(text)
        ELSE IF line < 0 THEN 0
        ELSE LET lineOffset == lineOffsets[line + 1]
                 nextLineOffset == IF line + 1 < Len(lineOffsets)
                                   THEN lineOffsets[line + 2] ELSE Len(text)
                 at == lineOffset + position.character
             IN  IF at > nextLineOffset THEN nextLineOffset
                 ELSE IF at < lineOffset THEN lineOffset ELSE at

\* TextDocument.positionAt: the offset clamped into the text, then its line
PositionAt(text, offset) ==
    LET lineOffsets == LineOffsets(text)
        at == IF offset > Len(text) THEN Len(text) ELSE IF offset < 0 THEN 0 ELSE offset
        line == CHOOSE l \in 1..Len(lineOffsets) :
                    /\ lineOffsets[l] <= at
                    /\ \A m \in 1..Len(lineOffsets) : lineOffsets[m] <= at => m <= l
    IN  Position(line - 1, at - lineOffsets[line])

\* TextDocument.getText(range)
GetText(text, range) == SubSeq(text, OffsetAt(text, range.start) + 1, OffsetAt(text, range.end))

\* the text of the line a position is on, line break included
LineText(text, line) == GetText(text, Range(Position(line, 0), Position(line + 1, 0)))

\* String.prototype.substring(from) and lastIndexOf(t, from), 0-based, -1 for
\* no occurrence
Substring(s, from) == SubSeq(s, from + 1, Len(s))

LastIndexOf(s, t, from) ==
    LET hits == {i \in 0..from : HasAt(s, i + 1, t)}
    IN  IF hits = {} THEN -1 ELSE CHOOSE i \in hits : \A j \in hits : j <= i

---------------------------------------------------------------------------
(* Diagnostics and code actions *)

\* the Diagnostic the document validator makes of an accepted problem: the
\* range is where the named property of the node starts in the text
Diagnostic(accepted, range) ==
    [message |-> accepted.message, code |-> accepted.code, range |-> range,
     data |-> accepted.data]

NoEdit == [none |-> TRUE]

NoCommand == [absent |-> TRUE]

Undefined_ == [undefined |-> TRUE]

\* a CodeAction; fix names the method that built it (its title is not kept)
CodeAction(fix, kind, edit, command) ==
    [fix |-> fix, kind |-> kind, edit |-> edit, command |-> command]

\* the single text change of an action's WorkspaceEdit
TextEdit(range, newText) == [range |-> range, newText |-> newText]

\* Command.create(title, command, ...args)
Command(command, arguments) == [command |-> command, arguments |-> arguments]

\* what a resolver hands back: an action or undefined, or an exception
Resolved(action) == [raised |-> FALSE, action |-> action]

Failed == [raised |-> TRUE, action |-> Undefined_]

Max(a, b) == IF a > b THEN a ELSE b

\* /数组\s*([^\s]+)\s*的初始化元素数量超过了数组大小/
RE_ArrayMessage ==
    <<Lit(R_Array), Rep("s", 0, -1, 0), Rep("nspace", 1, -1, 1), Rep("s", 0, -1, 0),
      Lit(R_ArrayTail)>>

\* new RegExp(`${arrayName}\\s*\\[(\\d+)\\]`); an identifier holds no
\* metacharacter, so it stands for itself
RE_ArraySize(arrayName) ==
    <<Lit(arrayName), Rep("s", 0, -1, 0), Lit(<<"[">>), Rep("d", 1, -1, 1), Lit(<<"]">>)>>

\* /=\s*{([^}]*)}/
RE_InitList == <<Lit(<<"=">>), Rep("s", 0, -1, 0), Lit(<<"{">>), Rep("nbrace", 0, -1, 1), Lit(<<"}">>)>>

\* new RegExp(`${arrayName}\\s*\\[${currentSize}\\]`)
RE_SizedArray(arrayName, currentSize) ==
    <<Lit(arrayName), Rep("s", 0, -1, 0), Lit(<<"[">>), Lit(ToDigits(currentSize)), Lit(<<"]">>)>>

\* initListMatch[1].split(",").length
CountInitElements(list) == Len(Split(list, ","))

\* the edit, once the message, the line and the two patterns on it are matched
ArraySizeEdit(match, line, sizeMatch, initListMatch, lineRange) ==
    LET arrayName == match.caps[1].s
        currentSize == ParseInt(sizeMatch.caps[1].s).v
        initElements == CountInitElements(initListMatch.caps[1].s)
        newSize == Max(currentSize, initElements)
        newText == Replace(line, RE_SizedArray(arrayName, currentSize),
                           arrayName \o <<"[">> \o ToDigits(newSize) \o <<"]">>)
    IN  IF ~sizeMatch.ok \/ ~Truthy(sizeMatch.caps[1]) THEN Resolved(Undefined_)
        ELSE IF ~initListMatch.ok \/ ~Truthy(initListMatch.caps[1])
        THEN Resolved(Undefined_)
        ELSE Resolved(CodeAction("createArraySizeOverflowFix", "quickfix",
                                 TextEdit(lineRange, newText), NoCommand))

createArraySizeOverflowFix(diagnostic, text) ==
    LET lineRange == Range(Position(diagnostic.range.start.line, 0),
                           Position(diagnostic.range.start.line + 1, 0))
    IN  The({IF ~match.ok \/ ~Truthy(match.caps[1]) THEN Resolved(Undefined_)
             ELSE The({ArraySizeEdit(match, line, sizeMatch, initListMatch, lineRange) :
                          sizeMatch \in {Match(RE_ArraySize(match.caps[1].s), line)},
                          initListMatch \in {Match(RE_InitList, line)}}) :
                match \in {Match(RE_ArrayMessage, diagnostic.message)},
                line \in {GetText(text, lineRange)}})

\* /参数个数不匹配。预期\s*(\d+)\s*个参数，但实际调用时传递了\s*(\d+)\s*个参数/
RE_ParamMessage ==
    <<Lit(R_ParamHead), Rep("s", 0, -1, 0), Rep("d", 1, -1, 1), Rep("s", 0, -1, 0),
      Lit(R_ParamMid), Rep("s", 0, -1, 0), Rep("d", 1, -1, 2), Rep("s", 0, -1, 0),
      Lit(R_ParamTail)>>

\* /(\w+)\s*\((.*)\)/
RE_Call ==
    <<Rep("w", 1, -1, 1), Rep("s", 0, -1, 0), Lit(<<"(">>), Rep("dot", 0, -1, 2), Lit(<<")">>)>>

\* the command action; its title says "remove" when actualCount > expectedCount
\* and "add" otherwise, its command is the same in both branches
createParameterMismatchFix(diagnostic, text) ==
    The({IF ~match.ok THEN Resolved(Undefined_)
         ELSE Resolved(CodeAction("createParameterMismatchFix", "quickfix", NoEdit,
                                  Command("sysy.adjustParameters",
                                          [uri |-> "uri", range |-> diagnostic.range,
                                           expectedCount |-> ParseInt(match.caps[1].s).v]))) :
            match \in {Match(RE_ParamMessage, diagnostic.message)}})

\* `0 /* 参数${i + 1} */` for i = actualCount .. expectedCount - 1
Placeholders(actualCount, expectedCount) ==
    [k \in 1..(expectedCount - actualCount) |->
        L_PlaceholderPre \o ToDigits(actualCount + k) \o L_PlaceholderPost]

\* diagnostic.message.includes("传递了")
DiagnosticSaysPassed(message) == Includes(message, R_Passed)

\* the edit, once the message and the call on the line are matched
AdjustedCall(expectedCount, actualCount, line, callMatch, startLine, removingParams) ==
    LET funcName == callMatch.caps[1].s
        split == Split(callMatch.caps[2].s, ",")
        params == [k \in 1..Len(split) |-> Trim(split[k])]
        removing == removingParams /\ actualCount > expectedCount
        adding == ~removingParams /\ actualCount < expectedCount
        newParams == IF removing
                     THEN SubSeq(params, 1, IF expectedCount < Len(split)
                                            THEN expectedCount ELSE Len(split))
                     ELSE params \o Placeholders(actualCount, expectedCount)
        newCall == funcName \o <<"(">> \o Join(newParams, <<",", " ">>) \o <<")">>
        startIndex == IndexOf(line, Matched(line, callMatch)) - 1
        callRange == Range(Position(startLine, startIndex),
                           Position(startLine, startIndex + callMatch.end - callMatch.start))
    IN  IF ~callMatch.ok THEN Resolved(Undefined_)
        ELSE IF ~removing /\ ~adding THEN Resolved(Undefined_)
        ELSE Resolved(CodeAction("createAdjustParametersFix", "quickfix",
                                 TextEdit(callRange, newCall), NoCommand))

createAdjustParametersFix(diagnostic, text, removingParams) ==
    The({IF ~match.ok THEN Resolved(Undefined_)
         ELSE The({AdjustedCall(ParseInt(match.caps[1].s).v, ParseInt(match.caps[2].s).v,
                                line, callMatch, diagnostic.range.start.line,
                                removingParams) :
                      callMatch \in {Match(RE_Call, line)}}) :
            match \in {Match(RE_ParamMessage, diagnostic.message)},
            line \in {LineText(text, diagnostic.range.start.line)}})

\* /有返回值:\s*(\w+)\s*的函数缺少/
RE_ReturnMessage ==
    <<Lit(R_RetHead), Rep("s", 0, -1, 0), Rep("w", 1, -1, 1), Rep("s", 0, -1, 0),
      Lit(R_RetTail)>>

\* match?.[1] || "int"
ReturnTypeOf(message) ==
    LET match == Match(RE_ReturnMessage, message)
    IN  IF match.ok /\ Truthy(match.caps[1]) THEN match.caps[1].s ELSE T_int

\* "0.0" for float and double, "0" for every other type
DefaultReturnValue(returnType) ==
    IF returnType = T_float \/ returnType = <<"d", "o", "u", "b", "l", "e">> THEN <<"0", ".", "0">> ELSE <<"0">>

createMissingReturnFix(diagnostic, text) ==
    Resolved(CodeAction("createMissingReturnFix", "quickfix", NoEdit,
                        Command("sysy.addReturnStatement",
                                [uri |-> "uri", range |-> diagnostic.range,
                                 returnType |-> ReturnTypeOf(diagnostic.message)])))

RECURSIVE ScanLine(_, _, _)
\* the inner loop of createAppendReturnFix over the characters of one line
ScanLine(line, i, braceCount) ==
    IF i > Len(line) THEN [found |-> FALSE, braceCount |-> braceCount]
    ELSE LET count == IF line[i] = "{" THEN braceCount + 1
                      ELSE IF line[i] = "}" THEN braceCount - 1 ELSE braceCount
         IN  IF count = 0 THEN [found |-> TRUE, braceCount |-> 0]
             ELSE ScanLine(line, i + 1, count)

RECURSIVE ScanBraces(_, _, _)
\* the outer loop: whole lines from endLine (0-based) on
ScanBraces(lines, endLine, braceCount) ==
    IF endLine >= Len(lines) THEN [found |-> FALSE, endLine |-> endLine]
    ELSE LET r == ScanLine(lines[endLine + 1], 1, braceCount)
         IN  IF r.found THEN [found |-> TRUE, endLine |-> endLine]
             ELSE ScanBraces(lines, endLine + 1, r.braceCount)

\* line.match(/^\s*/)?.[0] || "    "
Indentation(line) ==
    LET n == RunLen(line, 1, "s")
    IN  IF n = 0 THEN <<" ", " ", " ", " ">> ELSE SubSeq(line, 1, n)

\* the count starts at 1 on the line the diagnostic starts on; lines[endLine - 1]
\* is undefined when the scan ends on the first line, and .match on it throws
createAppendReturnFix(diagnostic, text) ==
    The({IF ~scan.found THEN Resolved(Undefined_)
         ELSE IF scan.endLine = 0 THEN Failed
         ELSE Resolved(CodeAction("createAppendReturnFix", "quickfix",
                  TextEdit(Range(Position(scan.endLine, 0), Position(scan.endLine, 0)),
                           Indentation(lines[scan.endLine]) \o <<"r", "e", "t", "u", "r", "n", " ">>
                               \o DefaultReturnValue(returnType) \o <<";", "\n">>),
                  NoCommand)) :
            returnType \in {ReturnTypeOf(diagnostic.message)},
            lines \in {Split(text, "\n")},
            scan \in {ScanBraces(Split(text, "\n"), diagnostic.range.start.line, 1)}})

RECURSIVE BodyEnd(_, _, _)
\* the request handler's scan of functionBody from index i (0-based); 0 when
\* the count never returns to zero
BodyEnd(functionBody, i, braceCount) ==
    IF i >= Len(functionBody) THEN 0
    ELSE LET count == IF functionBody[i + 1] = "{" THEN braceCount + 1
                      ELSE IF functionBody[i + 1] = "}" THEN braceCount - 1
                      ELSE braceCount
         IN  IF count = 0 THEN i ELSE BodyEnd(functionBody, i + 1, count)

\* connection.onRequest("sysy.addReturnStatement"): the edit, or null
\* the edit: the statement goes where the indentation of the line ends
InsertEdit(line, indent, returnType) ==
    TextEdit(Range(Position(line, Len(indent)), Position(line, Len(indent))),
             <<"r", "e", "t", "u", "r", "n", " ">> \o DefaultReturnValue(returnType) \o <<";", "\n">> \o indent)

\* the line of the insert position and its indentation
ReturnEdit(text, insertPosition, returnType) ==
    The({InsertEdit(position.line, Indentation(LineText(text, position.line)), returnType) :
            position \in {PositionAt(text, insertPosition)}})

\* the scan for the closing brace, then the last line break before it, counted
\* from the start of the diagnostic
ReturnAt(text, start, functionBody, returnType) ==
    The({IF endOffset = 0 THEN NoEdit
         ELSE ReturnEdit(text, start + LastIndexOf(functionBody, <<"\n">>, endOffset),
                         returnType) :
            endOffset \in {BodyEnd(functionBody, 1, 1)}})

\* connection.onRequest("sysy.addReturnStatement"): the edit, or null;
\* substring takes a negative index (no brace found) as 0
addReturnStatement(params, text) ==
    The({ReturnAt(text, start,
                  Substring(text, Max(IndexOfFrom(text, <<"{">>, start + 1) - 1, 0)),
                  params.returnType) :
            start \in {OffsetAt(text, params.range.start)}})

\* codeToFix: the resolver registered for each error code
CODE_FIXES ==
    <<
      [code |-> ERROR_CODES.UNDEFINED_VARIABLE, resolver |-> "createUndeclaredVarFix"],
      [code |-> ERROR_CODES.DUPLICATE_DECLARATION, resolver |-> "createRenameDuplicateVarFix"],
      [code |-> ERROR_CODES.ARRAY_SIZE_OVERFLOW, resolver |-> "createArraySizeOverflowFix"],
      [code |-> ERROR_CODES.UNDEFINED_FUNCTION, resolver |-> "createUndeclaredFuncFix"],
      [code |-> ERROR_CODES.DUPLICATE_FUNCTION, resolver |-> "createRenameDuplicateFuncFix"],
      [code |-> ERROR_CODES.PARAMETER_MISMATCH, resolver |-> "createParameterMismatchFix"],
      [code |-> ERROR_CODES.INVALID_BREAK_CONTINUE, resolver |-> "createInvalidBreakContinueFix"],
      [code |-> ERROR_CODES.MISSING_RETURN, resolver |-> "createMissingReturnFix"],
      [code |-> ERROR_CODES.EMPTY_RETURN, resolver |-> "createEmptyReturnFix"],
      [code |-> ERROR_CODES.VOID_RETURN_VALUE, resolver |-> "createVoidReturnValueFix"],
      [code |-> ERROR_CODES.VOID_ASSIGNMENT, resolver |-> "createVoidAssignmentFix"],
      [code |-> ERROR_CODES.TYPE_MISMATCH, resolver |-> "createTypeMismatchFix"],
      [code |-> ERROR_CODES.MISSING_SEMICOLON, resolver |-> "createMissingSemicolonFix"],
      [code |-> ERROR_CODES.UNMATCHED_BRACKETS, resolver |-> "createUnmatchedBracketsFix"],
      [code |-> ERROR_CODES.UNUSED_VARIABLE, resolver |-> "createUnusedVariableFix"]
    >>

\* diagnosticMessageToFix: the resolver registered for each message pattern,
\* in insertion order
MESSAGE_FIXES ==
    <<
      \* "未定义的变量"
      [pattern |->
          <<"u672a", "u5b9a", "u4e49", "u7684", "u53d8", "u91cf">>,
       resolver |-> "createUndeclaredVarFix"],
      \* "未声明的变量"
      [pattern |->
          <<"u672a", "u58f0", "u660e", "u7684", "u53d8", "u91cf">>,
       resolver |-> "createUndeclaredVarFix"],
      \* "使用了未定义的变量"
      [pattern |->
          <<"u4f7f", "u7528", "u4e86", "u672a", "u5b9a", "u4e49", "u7684", "u53d8", "u91cf">>,
       resolver |-> "createUndeclaredVarFix"],
      \* "无法重新声明块范围变量"
      [pattern |->
          <<"u65e0", "u6cd5", "u91cd", "u65b0", "u58f0", "u660e", "u5757", "u8303",
            "u56f4", "u53d8", "u91cf">>,
       resolver |-> "createRenameDuplicateVarFix"],
      \* "数组的初始化元素数量超过了数组大小"
      [pattern |->
          <<"u6570", "u7ec4", "u7684", "u521d", "u59cb", "u5316", "u5143", "u7d20",
            "u6570", "u91cf", "u8d85", "u8fc7", "u4e86", "u6570", "u7ec4", "u5927", "u5c0f">>,
       resolver |-> "createArraySizeOverflowFix"],
      \* "调用了未定义的函数"
      [pattern |->
          <<"u8c03", "u7528", "u4e86", "u672a", "u5b9a", "u4e49", "u7684", "u51fd", "u6570">>,
       resolver |-> "createUndeclaredFuncFix"],
      \* "函数名已经定义过"
      [pattern |->
          <<"u51fd", "u6570", "u540d", "u5df2", "u7ecf", "u5b9a", "u4e49", "u8fc7">>,
       resolver |-> "createRenameDuplicateFuncFix"],
      \* "参数个数不匹配"
      [pattern |->
          <<"u53c2", "u6570", "u4e2a", "u6570", "u4e0d", "u5339", "u914d">>,
       resolver |-> "createParameterMismatchFix"],
      \* "非循环块中使用了"
      [pattern |->
          <<"u975e", "u5faa", "u73af", "u5757", "u4e2d", "u4f7f", "u7528", "u4e86">>,
       resolver |-> "createInvalidBreakContinueFix"],
      \* "有返回值的函数缺少 return"
      [pattern |->
          <<"u6709", "u8fd4", "u56de", "u503c", "u7684", "u51fd", "u6570", "u7f3a",
            "u5c11", " ", "r", "e", "t", "u", "r", "n">>,
       resolver |-> "createMissingReturnFix"],
      \* "有返回值的函数不应返回为空"
      [pattern |->
          <<"u6709", "u8fd4", "u56de", "u503c", "u7684", "u51fd", "u6570", "u4e0d",
            "u5e94", "u8fd4", "u56de", "u4e3a", "u7a7a">>,
       resolver |-> "createEmptyReturnFix"],
      \* "void 函数不应存在非空返回值"
      [pattern |->
          <<"v", "o", "i", "d", " ", "u51fd", "u6570", "u4e0d", "u5e94", "u5b58", "u5728",
            "u975e", "u7a7a", "u8fd4", "u56de", "u503c">>,
       resolver |-> "createVoidReturnValueFix"],
      \* "不能将void类型变量参与运算或用于赋值"
      [pattern |->
          <<"u4e0d", "u80fd", "u5c06", "v", "o", "i", "d", "u7c7b", "u578b", "u53d8",
            "u91cf", "u53c2", "u4e0e", "u8fd0", "u7b97", "u6216", "u7528", "u4e8e",
            "u8d4b", "u503c">>,
       resolver |-> "createVoidAssignmentFix"],
      \* "缺少分号"
      [pattern |->
          <<"u7f3a", "u5c11", "u5206", "u53f7">>,
       resolver |-> "createMissingSemicolonFix"],
      \* "应该有分号"
      [pattern |->
          <<"u5e94", "u8be5", "u6709", "u5206", "u53f7">>,
       resolver |-> "createMissingSemicolonFix"],
      \* "括号不匹配"
      [pattern |->
          <<"u62ec", "u53f7", "u4e0d", "u5339", "u914d">>,
       resolver |-> "createUnmatchedBracketsFix"],
      \* "缺少左括号"
      [pattern |->
          <<"u7f3a", "u5c11", "u5de6", "u62ec", "u53f7">>,
       resolver |-> "createUnmatchedBracketsFix"],
      \* "缺少右括号"
      [pattern |->
          <<"u7f3a", "u5c11", "u53f3", "u62ec", "u53f7">>,
       resolver |-> "createUnmatchedBracketsFix"],
      \* "括号未闭合"
      [pattern |->
          <<"u62ec", "u53f7", "u672a", "u95ed", "u5408">>,
       resolver |-> "createUnmatchedBracketsFix"],
      \* "未使用的变量"
      [pattern |->
          <<"u672a", "u4f7f", "u7528", "u7684", "u53d8", "u91cf">>,
       resolver |-> "createUnusedVariableFix"],
      \* "变量已声明但从未使用"
      [pattern |->
          <<"u53d8", "u91cf", "u5df2", "u58f0", "u660e", "u4f46", "u4ece", "u672a",
            "u4f7f", "u7528">>,
       resolver |-> "createUnusedVariableFix"]
    >>

\* "参数个数不匹配"   -- src/src/language/hello-world-validator.ts:689
L_ParamPattern ==
    <<"u53c2", "u6570", "u4e2a", "u6570", "u4e0d", "u5339", "u914d">>
\* "有返回值的函数缺少 return"   -- src/src/language/hello-world-validator.ts:701
L_ReturnPattern ==
    <<"u6709", "u8fd4", "u56de", "u503c", "u7684", "u51fd", "u6570", "u7f3a", "u5c11", " ", "r", "e", "t", "u", "r", "n">>

\* /未定义的变量\s*'([^']+)'|未声明的变量\s*'?([^'\s.]+)'?/: the leftmost match of
\* either alternative, the first alternative where both start
RE_UndeclaredVar(message) ==
    The({IF first.ok /\ (~second.ok \/ first.start <= second.start) THEN first ELSE second :
            first \in {Match(<<Lit(MESSAGE_FIXES[1].pattern), Rep("s", 0, -1, 0), Lit(<<"'">>),
                               Rep("nquote", 1, -1, 1), Lit(<<"'">>)>>, message)},
            second \in {Match(<<Lit(MESSAGE_FIXES[2].pattern), Rep("s", 0, -1, 0),
                                Rep("quote", 0, 1, 0), Rep("nqsd", 1, -1, 2),
                                Rep("quote", 0, 1, 0)>>, message)}})

\* match?.[1] || match?.[2]
VarNameOf(match) ==
    IF match.ok /\ Truthy(match.caps[1]) THEN match.caps[1].s
    ELSE IF match.ok /\ Truthy(match.caps[2]) THEN match.caps[2].s
    ELSE <<>>

createUndeclaredVarFix(diagnostic, text) ==
    The({IF varName = <<>> THEN Resolved(Undefined_)
         ELSE Resolved(CodeAction("createUndeclaredVarFix", "quickfix",
                  TextEdit(Range(Position(diagnostic.range.start.line, 0),
                                 Position(diagnostic.range.start.line, 0)),
                           <<"i", "n", "t", " ">> \o varName \o <<" ", "=", " ", "0", ";", "\n">>
                               \o [k \in 1..diagnostic.range.start.character |-> " "]),
                  NoCommand)) :
            varName \in {VarNameOf(RE_UndeclaredVar(diagnostic.message))}})

createGlobalVarDeclarationFix(diagnostic, text) ==
    The({IF varName = <<>> THEN Resolved(Undefined_)
         ELSE Resolved(CodeAction("createGlobalVarDeclarationFix", "quickfix",
                  TextEdit(Range(Position(0, 0), Position(0, 0)),
                           <<"i", "n", "t", " ">> \o varName \o <<" ", "=", " ", "0", ";", "\n", "\n">>),
                  NoCommand)) :
            varName \in {VarNameOf(RE_UndeclaredVar(diagnostic.message))}})

\* codeToFix.has(code)
HasCodeFix(code) == \E k \in 1..Len(CODE_FIXES) : CODE_FIXES[k].code = code

\* codeToFix.get(code)
CodeFix(code) == CODE_FIXES[CHOOSE k \in 1..Len(CODE_FIXES) : CODE_FIXES[k].code = code].resolver

\* the key createAdditionalFixes is called with: an error code or a pattern
CodeKey(code) == [code |-> code, pattern |-> <<>>]

PatternKey(pattern) == [code |-> "", pattern |-> pattern]

\* createAdditionalFixes: the entries pushed for a code or a message pattern
createAdditionalFixes(key, diagnostic, text) ==
    IF HasCodeFix(key.code)
    THEN CASE key.code = ERROR_CODES.UNDEFINED_VARIABLE ->
                <<createGlobalVarDeclarationFix(diagnostic, text)>>
           [] key.code = ERROR_CODES.PARAMETER_MISMATCH ->
                <<createAdjustParametersFix(diagnostic, text,
                                            DiagnosticSaysPassed(diagnostic.message))>>
           [] key.code = ERROR_CODES.MISSING_RETURN ->
                <<createAppendReturnFix(diagnostic, text)>>
           [] key.code \notin {ERROR_CODES.UNDEFINED_VARIABLE, ERROR_CODES.PARAMETER_MISMATCH,
                               ERROR_CODES.MISSING_RETURN} -> <<>>
    ELSE CASE key.pattern \in {MESSAGE_FIXES[1].pattern, MESSAGE_FIXES[2].pattern,
                               MESSAGE_FIXES[3].pattern} ->
                <<createGlobalVarDeclarationFix(diagnostic, text)>>
           [] key.pattern = L_ParamPattern ->
                <<createAdjustParametersFix(diagnostic, text,
                                            DiagnosticSaysPassed(diagnostic.message))>>
           [] key.pattern = L_ReturnPattern ->
                <<createAppendReturnFix(diagnostic, text)>>
           [] key.pattern \notin {L_ParamPattern, L_ReturnPattern, MESSAGE_FIXES[1].pattern,
                                  MESSAGE_FIXES[2].pattern, MESSAGE_FIXES[3].pattern} -> <<>>

\* a WorkspaceEdit whose changes object has no entry
EmptyEdit == [changes |-> 0]

\* createTypeMismatchFix: an action whose edit changes nothing
createTypeMismatchFix(diagnostic, text) ==
    Resolved(CodeAction("createTypeMismatchFix", "quickfix", EmptyEdit, NoCommand))

\* the resolvers bound in the registries that the fixes above come from
Resolve(resolver, diagnostic, text) ==
    CASE resolver = "createUndeclaredVarFix" -> createUndeclaredVarFix(diagnostic, text)
      [] resolver = "createArraySizeOverflowFix" -> createArraySizeOverflowFix(diagnostic, text)
      [] resolver = "createParameterMismatchFix" -> createParameterMismatchFix(diagnostic, text)
      [] resolver = "createMissingReturnFix" -> createMissingReturnFix(diagnostic, text)
      [] resolver = "createTypeMismatchFix" -> createTypeMismatchFix(diagnostic, text)

\* what a step of getCodeActions leaves: the list so far, and whether it threw
Pushed(actions) == [raised |-> FALSE, actions |-> actions]

Aborted(actions) == [raised |-> TRUE, actions |-> actions]

\* a seeded fault: the additional actions pushed without the filter
Unfiltered(additional) == [k \in 1..Len(additional) |-> additional[k].action]

\* the defined entries of the additional actions
Defined(additional) ==
    [k \in 1..Len(SelectSeq(additional, LAMBDA r : r.action # Undefined_)) |->
        SelectSeq(additional, LAMBDA r : r.action # Undefined_)[k].action]

\* the primary action pushed, then the defined additional ones
PushWithAdditional(key, action, diagnostic, text, codeActions) ==
    The({IF \E k \in 1..Len(additional) : additional[k].raised
         THEN Aborted(codeActions \o <<action>>)
         ELSE Pushed(codeActions \o <<action>> \o Defined(additional)) :
            additional \in {createAdditionalFixes(key, diagnostic, text)}})

\* the last registered pattern the message includes, 0 for none: the loop
\* without its break
LastPattern(message) ==
    LET hits == {k \in 1..Len(MESSAGE_FIXES) : Includes(message, MESSAGE_FIXES[k].pattern)}
    IN  IF hits = {} THEN 0 ELSE CHOOSE k \in hits : \A j \in hits : k >= j

\* the first registered pattern the message includes, 0 for none
FirstPattern(message) ==
    LET hits == {k \in 1..Len(MESSAGE_FIXES) : Includes(message, MESSAGE_FIXES[k].pattern)}
    IN  IF hits = {} THEN 0 ELSE CHOOSE k \in hits : \A j \in hits : k <= j

\* getDiagnosticCode: the code when it is a string ("" stands for none)
getDiagnosticCode(diagnostic) == diagnostic.code

\* the second pass, over the message patterns; only the first pattern the
\* message includes is tried
ByMessage(diagnostic, text, codeActions) ==
    The({IF k = 0 THEN Pushed(codeActions)
         ELSE The({IF byMessage.raised THEN Aborted(codeActions)
                   ELSE IF byMessage.action # Undefined_
                   THEN PushWithAdditional(PatternKey(MESSAGE_FIXES[k].pattern),
                                           byMessage.action, diagnostic, text, codeActions)
                   ELSE Pushed(codeActions) :
                      byMessage \in {Resolve(MESSAGE_FIXES[k].resolver, diagnostic, text)}}) :
            k \in {FirstPattern(diagnostic.message)}})

createCodeActionsForDiagnostic(diagnostic, text, codeActions) ==
    LET code == getDiagnosticCode(diagnostic)
    IN  IF code # "" /\ HasCodeFix(code)
        THEN The({IF byCode.raised THEN Aborted(codeActions)
                  ELSE IF byCode.action # Undefined_
                  THEN PushWithAdditional(CodeKey(code), byCode.action, diagnostic, text,
                                          codeActions)
                  ELSE ByMessage(diagnostic, text, codeActions) :
                     byCode \in {Resolve(CodeFix(code), diagnostic, text)}})
        ELSE ByMessage(diagnostic, text, codeActions)

\* one look into a registry by createCodeActionsForDiagnostic: the key found
\* (resolver "" when none was), and whether the resolver bound to it returned
\* an action
Looked(registry, key, resolver, result) ==
    [registry |-> registry, key |-> key, resolver |-> resolver,
     gave |-> ~result.raised /\ result.action # Undefined_]

\* the looks of the second pass: at the first pattern the message includes
LookedByMessage(diagnostic, text) ==
    The({IF k = 0 THEN <<Looked("message", PatternKey(<<>>), "", Resolved(Undefined_))>>
         ELSE <<Looked("message", PatternKey(MESSAGE_FIXES[k].pattern),
                       MESSAGE_FIXES[k].resolver,
                       Resolve(MESSAGE_FIXES[k].resolver, diagnostic, text))>> :
            k \in {FirstPattern(diagnostic.message)}})

\* the registries createCodeActionsForDiagnostic looks into, in order; the
\* second pass runs when the first did not return
Consulted(diagnostic, text) ==
    LET code == getDiagnosticCode(diagnostic)
    IN  IF code # "" /\ HasCodeFix(code)
        THEN The({IF byCode.raised \/ byCode.action # Undefined_
                  THEN <<Looked("code", CodeKey(code), CodeFix(code), byCode)>>
                  ELSE <<Looked("code", CodeKey(code), CodeFix(code), byCode)>>
                           \o LookedByMessage(diagnostic, text) :
                     byCode \in {Resolve(CodeFix(code), diagnostic, text)}})
        ELSE LookedByMessage(diagnostic, text)

createGenericFix(diagnostic) ==
    CodeAction("createGenericFix", "quickfix", NoEdit,
               Command("sysy.genericFix", [uri |-> "uri", range |-> diagnostic.range]))

\* addRefactoringActions: "extract to function", then "extract to variable"
addRefactoringActions(params, text) ==
    <<CodeAction("extractFunction", "refactor.extract", NoEdit,
                 Command("sysy.extractFunction", [uri |-> "uri", range |-> params.range])),
      CodeAction("extractVariable", "refactor.extract",
                 TextEdit(params.range,
                          <<"t", "e", "m", "p", "_", "v", "a", "r", " ", "=", " ">> \o GetText(text, params.range) \o <<";">>),
                 NoCommand)>>

RECURSIVE ForEachDiagnostic(_, _, _, _)
\* the loop of getCodeActions from diagnostic i on; a throw ends it
ForEachDiagnostic(batch, i, text, codeActions) ==
    IF i > Len(batch) THEN Pushed(codeActions)
    ELSE The({IF step.raised THEN step
              ELSE ForEachDiagnostic(batch, i + 1, text, step.actions) :
                 step \in {createCodeActionsForDiagnostic(batch[i], text, codeActions)}})

\* params.range is a non-empty selection within one line
SingleLineSelection(range) ==
    range.start.line = range.end.line /\ range.start.character # range.end.character

\* getCodeActions: the list returned, and whether the catch block logged
getCodeActions(params, text) ==
    The({IF loop.raised THEN [actions |-> loop.actions, caught |-> TRUE]
         ELSE IF SingleLineSelection(params.range)
         THEN [actions |-> loop.actions \o addRefactoringActions(params, text),
               caught |-> FALSE]
         ELSE IF Len(loop.actions) = 0 /\ Len(params.diagnostics) > 0
         THEN [actions |-> <<createGenericFix(params.diagnostics[1])>>, caught |-> FALSE]
         ELSE [actions |-> loop.actions, caught |-> FALSE] :
            loop \in {ForEachDiagnostic(params.diagnostics, 1, text, <<>>)}})

---------------------------------------------------------------------------
(* Documents the quick fixes are asked about: a text, the node the text    *)
(* spells, and the diagnostic the validator reports on it.  The grammar is *)
(* not part of the sources: a range starts where the text of the reported  *)
(* property starts.                                                        *)

\* the number of line breaks in a text: the line the next character is on
LineCount(text) == Len(LineOffsets(text)) - 1

\* an initializer element that is a call with two arguments
E_call == <<"f", "(", "1", ",", "2", ")">>

\* initializer lists of n elements, each a literal or a call
ElementLists(n) ==
    {[k \in 1..n |-> IF k \in calls THEN E_call ELSE ToDigits(k)] : calls \in SUBSET (1..n)}

\* the one-line declaration `int name[size] = {e1,...,eN};`
ArrayLine(name, size, elements) ==
    T_int \o <<" ">> \o name \o <<"[">> \o ToDigits(size) \o <<"]", " ", "=", " ", "{">>
          \o Join(elements, <<",">>) \o <<"}", ";", "\n">>

\* what comes before the line asked about: nothing, or a line of its own
Prefixes == {<<>>, <<"i", "n", "t", " ", "x", ";", "\n">>}

ArraySource(prefix, size, elements) ==
    LET arr == VarDef(N_arr, <<LiteralSize(size)>>, <<[manyInit |-> elements]>>)
        line == ArrayLine(N_arr, size, elements)
        at == IndexOf(line, <<"=">>) - 1
        range == Range(Position(LineCount(prefix), at),
                       Position(LineCount(prefix), Len(line) - 2))
    IN  [text |-> prefix \o line,
         subject |-> [kind |-> "array", arr |-> arr, line |-> LineCount(prefix)],
         problems |-> [k \in 1..Len(hoverTipsArray(arr, <<1>>).diags) |->
                          Diagnostic(hoverTipsArray(arr, <<1>>).diags[k], range)]]

ArraySources ==
    {ArraySource(prefix, size, elements) :
        prefix \in Prefixes, size \in 1..MaxCount,
        elements \in UNION {ElementLists(n) : n \in 2..(MaxCount + 1)}}

\* the call statement `    foo(a1, ..., an);` to a function of `declared`
\* parameters
CallLine(call, separator) ==
    <<" ", " ", " ", " ">> \o call.funcname.refText \o <<"(">> \o Join(call.funcRparams, separator) \o <<")", ";", "\n">>

CallSource(prefix, declared, actual, separator) ==
    LET call == FuncRParams(FuncRef(N_foo, FuncTarget(declared, T_int)), actual, <<0>>)
        line == CallLine(call, separator)
        at == IF actual = 0 THEN 4 ELSE IndexOf(line, <<"(">>)
        range == Range(Position(LineCount(prefix), at),
                       Position(LineCount(prefix), Len(line) - 3))
        found == checkFunctionParameterMismatch(call, <<1>>).diags
    IN  [text |-> prefix \o line,
         subject |-> [kind |-> "call", call |-> call, line |-> LineCount(prefix)],
         problems |-> [k \in 1..Len(found) |-> Diagnostic(found[k], range)]]

CallSources ==
    {CallSource(prefix, declared, actual, separator) :
        prefix \in Prefixes, declared \in 0..MaxCount, actual \in 0..MaxCount,
        separator \in {<<",">>, <<",", " ">>}}

\* the ways a function without a return statement is laid out, with the body
\* each spells: on one line, over several lines, around a nested block, with
\* the opening brace on its own line, with nothing in it
Layouts == {"inline", "lines", "nested", "allman", "empty"}

FunctionText(functype, layout) ==
    CASE layout = "inline" -> functype \o <<" ", "f", "(", ")", " ", "{", " ", "i", "n", "t", " ", "x", " ", "=", " ", "1", ";", " ", "}">>
      [] layout = "lines"  -> functype \o <<" ", "f", "(", ")", " ", "{", "\n", " ", " ", " ", " ", "i", "n", "t", " ", "x", " ", "=", " ", "1", ";", "\n", "}">>
      [] layout = "nested" ->
            functype \o <<" ", "f", "(", ")", " ", "{", "\n", " ", " ", " ", " ", "w", "h", "i", "l", "e", " ", "(", "1", ")", " ", "{", "\n", " ", " ", " ", " ", " ", " ", " ", " ", "x", " ", "=", " ", "1", ";", "\n", " ", " ", " ", " ", "}", "\n", "}">>
      [] layout = "allman" -> functype \o <<" ", "f", "(", ")", "\n", "{", "\n", " ", " ", " ", " ", "i", "n", "t", " ", "x", " ", "=", " ", "1", ";", "\n", "}">>
      [] layout = "empty"  -> functype \o <<" ", "f", "(", ")", " ", "{", "\n", "}">>

FunctionBlock(layout) ==
    CASE layout \in {"inline", "lines", "allman"} -> Block(<<DeclItem>>)
      [] layout = "nested" -> Block(<<Item(While(Block(<<Item(Stmt("Stmtexp"))>>)))>>)
      [] layout = "empty"  -> Block(<<>>)

\* what stands before the function: nothing, another function, another
\* function whose closing brace shares the line of the header
FunctionPrefixes == {<<>>, <<"v", "o", "i", "d", " ", "h", "(", ")", " ", "{", "\n", "}", "\n">>, <<"v", "o", "i", "d", " ", "h", "(", ")", " ", "{", "\n", "}", " ">>}

\* what stands after it: nothing, a line break, another function
FunctionSuffixes == {<<>>, <<"\n">>, <<"\n", "v", "o", "i", "d", " ", "g", "(", ")", " ", "{", "\n", "}", "\n">>}

\* open and close are the offsets of the function's own braces
FunctionSource(prefix, functype, layout, suffix) ==
    LET funcDef == FuncDef(N_f, functype, FunctionBlock(layout))
        function == FunctionText(functype, layout)
        text == prefix \o function \o suffix
        range == Range(PositionAt(text, Len(prefix)),
                       PositionAt(text, Len(prefix) + Len(functype)))
        found == checkFunctionReturnType(funcDef, <<1>>).diags
    IN  [text |-> text,
         subject |-> [kind |-> "function", funcDef |-> funcDef,
                      open |-> Len(prefix) + IndexOf(function, <<"{">>) - 1,
                      close |-> Len(prefix) + Len(function) - 1],
         problems |-> [k \in 1..Len(found) |-> Diagnostic(found[k], range)]]

FunctionSources ==
    {FunctionSource(prefix, functype, layout, suffix) :
        prefix \in FunctionPrefixes, functype \in {T_int, T_float}, layout \in Layouts,
        suffix \in FunctionSuffixes}

\* a diagnostic of another origin: no code, a message no pattern occurs in
Foreign ==
    [message |-> <<"a">>, code |-> "", range |-> Range(Position(0, 0), Position(0, 1)),
     data |-> [none |-> TRUE]]

\* the editor asks with the cursor at the problem, or with the problem selected
Selections(source) ==
    IF source.problems = <<>> THEN {Range(Position(0, 0), Position(0, 0))}
    ELSE {Range(source.problems[1].range.start, source.problems[1].range.start),
          source.problems[1].range}

Request(source, batch, range) ==
    [text |-> source.text, subject |-> source.subject,
     params |-> [diagnostics |-> batch, range |-> range]]

RequestsOf(source) ==
    {Request(source, source.problems, range) : range \in Selections(source)}

\* batches that hold a diagnostic of another origin
MixedRequests ==
    LET source == CallSource(<<>>, 3, 2, <<",", " ">>)
    IN  {Request(source, batch, Range(Position(0, 0), Position(0, 0))) :
            batch \in {<<Foreign>>, <<Foreign>> \o source.problems,
                       source.problems \o <<Foreign>>}}

\* a function whose header line ends in a line comment that holds a closing
\* brace (line comments: src/README.md:47)
CommentSource ==
    LET funcDef == FuncDef(N_f, T_int, Block(<<>>))
        found == checkFunctionReturnType(funcDef, <<1>>).diags
    IN  [text |-> <<"i", "n", "t", " ", "f", "(", ")", " ", "{", " ", "}", " ", "/", "/", " ", "}", "\n">>,
         subject |-> [kind |-> "function", funcDef |-> funcDef, open |-> 8, close |-> 10],
         problems |-> [k \in 1..Len(found) |->
                          Diagnostic(found[k], Range(Position(0, 0), Position(0, 3)))]]

\* an array declaration whose initializer stands on the line after the name:
\* `int arr[1]` and `= {1,2};`
BrokenLineSource ==
    LET arr == VarDef(N_arr, <<LiteralSize(1)>>, <<[manyInit |-> <<<<"1">>, <<"2">>>>]>>)
        found == hoverTipsArray(arr, <<1>>).diags
    IN  [text |-> <<"i", "n", "t", " ", "a", "r", "r", "[", "1", "]", "\n", "=", " ", "{", "1", ",", "2", "}", ";", "\n">>,
         subject |-> [kind |-> "array", arr |-> arr, line |-> 1],
         problems |-> [k \in 1..Len(found) |->
                          Diagnostic(found[k], Range(Position(1, 2), Position(1, 7)))]]

\* the statement `    a = 1;` whose variable is not declared
VarUseSource ==
    LET lval == [type |-> "VariableLVal", value |-> [ref |-> NoRef, refText |-> N_a]]
        found == checkVariableDeclared(lval, <<1>>).diags
    IN  [text |-> <<" ", " ", " ", " ", "a", " ", "=", " ", "1", ";", "\n">>,
         subject |-> [kind |-> "use", lval |-> lval, line |-> 0],
         problems |-> [k \in 1..Len(found) |->
                          Diagnostic(found[k], Range(Position(0, 4), Position(0, 5)))]]

\* the diagnostic as a client hands it back that keeps no code
CodeLess(diagnostic) == [diagnostic EXCEPT !.code = ""]

\* a diagnostic of a text that stands `by` lines further down
Shifted(diagnostic, by) ==
    [diagnostic EXCEPT
        !.range = Range(Position(diagnostic.range.start.line + by,
                                 diagnostic.range.start.character),
                        Position(diagnostic.range.end.line + by,
                                 diagnostic.range.end.character))]

\* the texts a document of two problems is put together from; each ends in a
\* line break and carries one diagnostic of the validator
Parts ==
    {ArraySource(<<>>, 1, <<<<"1">>, <<"2">>>>), BrokenLineSource, CallSource(<<>>, 3, 2, <<",", " ">>),
     FunctionSource(<<>>, T_int, "empty", <<"\n">>),
     FunctionSource(<<"v", "o", "i", "d", " ", "h", "(", ")", " ", "{", "\n", "}", " ">>, T_int, "empty", <<"\n">>), CommentSource, VarUseSource}

\* one text after the other
Combined(first, second) ==
    [text |-> first.text \o second.text,
     subject |-> [kind |-> "batch", kinds |-> <<first.subject.kind, second.subject.kind>>],
     problems |-> first.problems \o
                  [k \in 1..Len(second.problems) |->
                      Shifted(second.problems[k], LineCount(first.text))]]

\* the batches a client sends for a document of two problems: some or all of
\* them, in either order, alone or beside a diagnostic of another origin
Batches(problems) ==
    {<<>>, <<Foreign>>, <<problems[1]>>, <<problems[2]>>, problems,
     <<problems[2], problems[1]>>, <<Foreign>> \o problems,
     <<problems[1], Foreign, problems[2]>>, <<CodeLess(problems[1])>>,
     <<CodeLess(problems[1]), problems[2]>>}

\* the cursor, a selection within the first line, a selection over a line break
BatchSelections ==
    {Range(Position(0, 0), Position(0, 0)), Range(Position(0, 0), Position(0, 3)),
     Range(Position(0, 0), Position(1, 0))}

BatchRequests ==
    UNION {{Request(Combined(first, second), batch, range) :
               batch \in Batches(Combined(first, second).problems),
               range \in BatchSelections} :
           first \in Parts, second \in Parts}

\* the diagnostic with its code and payload under another wording of the message
Reworded(diagnostic) == [diagnostic EXCEPT !.message = <<"p", "r", "o", "b", "l", "e", "m", " ", "h", "e", "r", "e">>]

\* a diagnostic of each resolver that reads names or counts, reworded
RewordedRequests ==
    {Request(source, <<Reworded(source.problems[1])>>, Range(Position(0, 0), Position(0, 0))) :
        source \in {VarUseSource, ArraySource(<<>>, 1, <<<<"1">>, <<"2">>>>),
                    CallSource(<<>>, 3, 2, <<",", " ">>)}}

\* a diagnostic that carries the code type-mismatch
TypeMismatch ==
    [message |-> <<"u7c7b", "u578b", "u4e0d", "u5339", "u914d">>, code |-> ERROR_CODES.TYPE_MISMATCH,
     range |-> Range(Position(0, 0), Position(0, 1)), data |-> [none |-> TRUE]]

\* requests about a type mismatch, alone and after the problems of a call
TypeMismatchRequests ==
    LET source == CallSource(<<>>, 3, 2, <<",", " ">>)
    IN  {Request(source, batch, range) :
            batch \in {<<TypeMismatch>>, source.problems \o <<TypeMismatch>>},
            range \in {Range(Position(0, 0), Position(0, 0)),
                       Range(Position(0, 0), Position(0, 1))}}

Requests ==
    (UNION {RequestsOf(source) : source \in ArraySources \cup CallSources \cup FunctionSources})
        \cup MixedRequests \cup BatchRequests \cup RewordedRequests \cup TypeMismatchRequests

\* textDocument/codeAction
GetCodeActions ==
    \E request \in Requests :
        /\ Call("getCodeActions", request, getCodeActions(request.params, request.text))
        /\ UNCHANGED <<DocumentVars, reported, funcNames, DebuggerVars>>

\* the dispatch of one diagnostic of a request, with the registries it looked into
CreateCodeActionsForDiagnostic ==
    \E request \in Requests :
        \E i \in 1..Len(request.params.diagnostics) :
            \E pushed \in {createCodeActionsForDiagnostic(request.params.diagnostics[i],
                                                          request.text, <<>>)} :
                /\ Call("createCodeActionsForDiagnostic",
                        [text |-> request.text, diagnostic |-> request.params.diagnostics[i]],
                        [actions |-> pushed.actions, raised |-> pushed.raised,
                         consulted |-> Consulted(request.params.diagnostics[i], request.text)])
                /\ UNCHANGED <<DocumentVars, reported, funcNames, DebuggerVars>>

\* the client runs the command of a createMissingReturnFix action it was given
AddReturnStatement ==
    \E source \in FunctionSources :
        LET params == createMissingReturnFix(source.problems[1], source.text)
                          .action.command.arguments
        IN  /\ Call("addReturnStatement",
                    [text |-> source.text, subject |-> source.subject, params |-> params],
                    [edit |-> addReturnStatement(params, source.text)])
            /\ UNCHANGED <<DocumentVars, reported, funcNames, DebuggerVars>>

FixNext ==
    \/ GetCodeActions
    \/ CreateCodeActionsForDiagnostic
    \/ AddReturnStatement
    \/ Respond

FixSpec == Init /\ [][FixNext]_vars

---------------------------------------------------------------------------
(* Properties of the quick fixes *)

\* the request carries exactly the diagnostic the validator reported on the
\* node the text spells
AskedAbout(kind, code) ==
    /\ op = "getCodeActions"
    /\ arg.subject.kind = kind
    /\ Len(arg.params.diagnostics) = 1
    /\ arg.params.diagnostics[1].code = code

\* the actions of the result that the method named built
ActionsOf(fix) == SelectSeq(out.actions, LAMBDA a : a.fix = fix)

\* the text after an edit is applied to it
ApplyEdit(text, edit) ==
    SubSeq(text, 1, OffsetAt(text, edit.range.start)) \o edit.newText
        \o SubSeq(text, OffsetAt(text, edit.range.end) + 1, Len(text))

\* the answer holds one array-size fix, and its edit replaces the whole line
\* by the declaration with the number of initializer elements as the size
ArraySizeFixed ==
    LET arr == arg.subject.arr
        line == arg.subject.line
        fixes == ActionsOf("createArraySizeOverflowFix")
    IN  /\ Len(fixes) = 1
        /\ fixes[1].edit =
              TextEdit(Range(Position(line, 0), Position(line + 1, 0)),
                       ArrayLine(arr.name, Len(arr.Init[1].manyInit), arr.Init[1].manyInit))

\* C4: for an ARRAY_SIZE_OVERFLOW diagnostic of the validator on a one-line
\* declaration `T name[S] = {e1,...,eN};` with N > S, the array-size fix
\* returns one edit whose text is the same line with S replaced by N.
C4_ArraySizeFix == AskedAbout("array", ERROR_CODES.ARRAY_SIZE_OVERFLOW) => ArraySizeFixed

\* C4, for initializer elements that hold no comma: the fix is as stated
C4_CommaFreeElements ==
    (/\ AskedAbout("array", ERROR_CODES.ARRAY_SIZE_OVERFLOW)
     /\ \A k \in 1..Len(arg.subject.arr.Init[1].manyInit) :
            ~Includes(arg.subject.arr.Init[1].manyInit[k], <<",">>))
        => ArraySizeFixed

\* `int arr[3] = {1,2,3,4};` was asked about and the fix wrote arr[4]
C4_PlainReached ==
    /\ AskedAbout("array", ERROR_CODES.ARRAY_SIZE_OVERFLOW)
    /\ arg.text = ArrayLine(N_arr, 3, <<<<"1">>, <<"2">>, <<"3">>, <<"4">>>>)
    /\ ArraySizeFixed

\* the arguments of the call on a line of the text, as the fix reads them
CallArguments(text, line) ==
    LET match == Match(RE_Call, LineText(text, line))
        split == Split(match.caps[2].s, ",")
    IN  IF match.ok THEN [k \in 1..Len(split) |-> Trim(split[k])] ELSE <<>>

\* the edit leaves a call of `expected` arguments: the original ones in order,
\* then placeholders
AddsMissing(edit) ==
    LET call == arg.subject.call
        expected == Len(call.funcname.ref.funcFparam)
        actual == Len(call.funcRparams)
        after == CallArguments(ApplyEdit(arg.text, edit), arg.subject.line)
    IN  /\ Len(after) = expected
        /\ SubSeq(after, 1, actual) = call.funcRparams
        /\ \A k \in (actual + 1)..expected : after[k] # <<>>

FewerThanDeclared ==
    /\ AskedAbout("call", ERROR_CODES.PARAMETER_MISMATCH)
    /\ Len(arg.subject.call.funcRparams) < Len(arg.subject.call.funcname.ref.funcFparam)

\* C6: for a PARAMETER_MISMATCH diagnostic of the validator with actualCount <
\* expectedCount, getCodeActions returns a fix whose edit rewrites the call to
\* expectedCount arguments: the original ones, then placeholders.
C6_AddMissingParameters ==
    FewerThanDeclared =>
        \E k \in 1..Len(out.actions) :
            /\ out.actions[k].edit # NoEdit
            /\ AddsMissing(out.actions[k].edit)

\* C6, what is returned instead: with fewer arguments than declared and no
\* selection, the answer is the one action that carries the command
\* sysy.adjustParameters and no edit
C6_CommandOnly ==
    (FewerThanDeclared /\ ~SingleLineSelection(arg.params.range)) =>
        /\ Len(out.actions) = 1
        /\ out.actions[1].fix = "createParameterMismatchFix"
        /\ out.actions[1].edit = NoEdit
        /\ out.actions[1].command.command = "sysy.adjustParameters"

\* the edit is an insertion of the return statement for the function's type
\* inside the function's own braces, with nothing but white space between it
\* and the closing brace
InsertsBeforeClose(edit) ==
    LET at == OffsetAt(arg.text, edit.range.start)
        functype == arg.subject.funcDef.functype
    IN  /\ edit.range.start = edit.range.end
        /\ at > arg.subject.open
        /\ at <= arg.subject.close
        /\ \A i \in (at + 1)..arg.subject.close : InClass(arg.text[i], "s")
        /\ Trim(edit.newText) = IF functype = T_float THEN <<"r", "e", "t", "u", "r", "n", " ", "0", ".", "0", ";">> ELSE <<"r", "e", "t", "u", "r", "n", " ", "0", ";">>

\* the actions of an answer that are about the missing return
ReturnActions ==
    SelectSeq(out.actions, LAMBDA a : a.fix \in {"createMissingReturnFix",
                                                 "createAppendReturnFix"})

\* C7: for a MISSING_RETURN diagnostic on a function with balanced braces, the
\* fix inserts `return 0;` (`return 0.0;` for float) immediately before the
\* closing brace of that function, never at the brace of a nested block or of
\* another function: an answer of getCodeActions holds a return action, each
\* edit among them is such an insertion, and so is the edit the request
\* sysy.addReturnStatement computes for the command among them.
C7_MissingReturnFix ==
    /\ AskedAbout("function", ERROR_CODES.MISSING_RETURN) =>
          /\ ReturnActions # <<>>
          /\ \A k \in 1..Len(ReturnActions) :
                ReturnActions[k].edit # NoEdit => InsertsBeforeClose(ReturnActions[k].edit)
    /\ op = "addReturnStatement" =>
          /\ out.edit # NoEdit
          /\ InsertsBeforeClose(out.edit)

\* C7, the direct edit: createAppendReturnFix counts from 1 at the start of the
\* header line, so on balanced text it returns nothing, or throws, or ends at
\* a brace before the function; no edit of getCodeActions lies in the function
C7_NoEditInFunction ==
    AskedAbout("function", ERROR_CODES.MISSING_RETURN) =>
        \A k \in 1..Len(ReturnActions) :
            ReturnActions[k].edit # NoEdit =>
                OffsetAt(arg.text, ReturnActions[k].edit.range.start) <= arg.subject.open

\* C7, an edit of getCodeActions at the closing brace of the function before
C7_AtOtherFunction ==
    /\ AskedAbout("function", ERROR_CODES.MISSING_RETURN)
    /\ \E k \in 1..Len(ReturnActions) :
          /\ ReturnActions[k].edit # NoEdit
          /\ arg.text[OffsetAt(arg.text, ReturnActions[k].edit.range.start) + 1] = "}"

\* C7, the request on `int f() { int x = 1; }`: the statement goes into the
\* header, after `int `
C7_InHeader ==
    /\ op = "addReturnStatement"
    /\ arg.text = FunctionText(T_int, "inline")
    /\ out.edit = TextEdit(Range(Position(0, 4), Position(0, 4)), <<"r", "e", "t", "u", "r", "n", " ", "0", ";", "\n", " ", " ", " ", " ">>)

---------------------------------------------------------------------------
(* Properties of getCodeActions over a batch of diagnostics *)

\* the actions the dispatch makes of one diagnostic of the request on its own
ActionsFor(diagnostic) == createCodeActionsForDiagnostic(diagnostic, arg.text, <<>>)

\* every action in the list is in the answer
AllIn(actions) ==
    \A k \in 1..Len(actions) : \E j \in 1..Len(out.actions) : out.actions[j] = actions[k]

\* the first diagnostic of the batch whose dispatch throws, 0 for none
FirstThrow ==
    LET batch == arg.params.diagnostics
        throwing == {i \in 1..Len(batch) : ActionsFor(batch[i]).raised}
    IN  IF throwing = {} THEN 0 ELSE CHOOSE i \in throwing : \A j \in throwing : i <= j

\* C11: an exception raised while one diagnostic of the batch is resolved does
\* not stop the batch; the actions of every diagnostic of the batch, the later
\* ones included, are in the result of getCodeActions.
C11_BatchContinues ==
    op = "getCodeActions" =>
        \A i \in 1..Len(arg.params.diagnostics) : AllIn(ActionsFor(arg.params.diagnostics[i]).actions)

\* C11, what the loop does: after a throw the result holds what was pushed
\* up to the throw and nothing of a later diagnostic
C11_EndsAtThrow ==
    (op = "getCodeActions" /\ FirstThrow # 0) =>
        /\ out.caught
        /\ out.actions = Concat([i \in 1..FirstThrow |->
                                    ActionsFor(arg.params.diagnostics[i]).actions])

\* the first of two diagnostics threw and the fix of the second is missing
C11_LaterLost ==
    /\ op = "getCodeActions"
    /\ Len(arg.params.diagnostics) = 2
    /\ FirstThrow = 1
    /\ ActionsFor(arg.params.diagnostics[2]).actions # <<>>
    /\ ~AllIn(ActionsFor(arg.params.diagnostics[2]).actions)

\* the looks of the dispatch into one registry
LooksInto(registry) == SelectSeq(out.consulted, LAMBDA look : look.registry = registry)

\* the looks that found a key, and those whose resolver returned an action
Selected == SelectSeq(out.consulted, LAMBDA look : look.resolver # "")

Gave == SelectSeq(out.consulted, LAMBDA look : look.gave)

\* the diagnostic's code has a binding in the code registry
CodeBound == arg.diagnostic.code # "" /\ HasCodeFix(arg.diagnostic.code)

\* the key is the earliest registered pattern that occurs in the message
EarliestPattern(key, message) ==
    \E k \in 1..Len(MESSAGE_FIXES) :
        /\ MESSAGE_FIXES[k].pattern = key.pattern
        /\ Includes(message, key.pattern)
        /\ \A j \in 1..(k - 1) : ~Includes(message, MESSAGE_FIXES[j].pattern)

\* the code registry comes first, and a pattern that is used is the earliest
\* one in the message
CodeFirstThenEarliest ==
    /\ CodeBound => /\ out.consulted[1].registry = "code"
                    /\ out.consulted[1].resolver = CodeFix(arg.diagnostic.code)
                    /\ Len(LooksInto("code")) = 1
    /\ ~CodeBound => LooksInto("code") = <<>>
    /\ Len(LooksInto("message")) <= 1
    /\ \A k \in 1..Len(out.consulted) :
          (out.consulted[k].registry = "message" /\ out.consulted[k].resolver # "")
              => EarliestPattern(out.consulted[k].key, arg.diagnostic.message)

\* C12: the code registry is consulted first; the message-pattern registry is
\* consulted when the code has no binding or the resolver bound to the code
\* returned no action; of the patterns only the first registered one that
\* occurs in the message is used; the actions of at most one binding are
\* pushed, the primary action first.
C12_Dispatch ==
    op = "createCodeActionsForDiagnostic" =>
        /\ CodeFirstThenEarliest
        /\ LooksInto("message") # <<>> <=> (~CodeBound \/ ~out.consulted[1].gave)
        /\ Len(Gave) <= 1
        /\ Gave = <<>> => out.actions = <<>>
        /\ Gave # <<>> => (out.actions # <<>> /\ out.actions[1].fix = Gave[1].resolver)

\* the array declaration over two lines: the code is bound, its resolver finds
\* no size on the line of the diagnostic, and the patterns are gone through
C12_Witness ==
    /\ op = "createCodeActionsForDiagnostic"
    /\ arg.diagnostic.code = ERROR_CODES.ARRAY_SIZE_OVERFLOW
    /\ CodeBound
    /\ ~out.consulted[1].gave
    /\ LooksInto("message") # <<>>
    /\ out.actions = <<>>

\* a message without a code that holds two registered patterns was resolved
\* by the binding of the earlier one
C12_EarlierOfTwo ==
    /\ op = "createCodeActionsForDiagnostic"
    /\ ~CodeBound
    /\ Includes(arg.diagnostic.message, MESSAGE_FIXES[1].pattern)
    /\ Includes(arg.diagnostic.message, MESSAGE_FIXES[3].pattern)
    /\ Selected = <<Looked("message", PatternKey(MESSAGE_FIXES[1].pattern),
                           "createUndeclaredVarFix", Resolved(NoEdit))>>

\* C12 as stated: the message-pattern registry is consulted only when the
\* code has no binding, and at most one binding is selected per diagnostic.
C12_AsStated ==
    op = "createCodeActionsForDiagnostic" =>
        /\ CodeFirstThenEarliest
        /\ LooksInto("message") # <<>> => ~CodeBound
        /\ Len(Selected) <= 1

\* the batch is not empty and the dispatch made no action of any diagnostic
NothingResolved ==
    /\ op = "getCodeActions"
    /\ arg.params.diagnostics # <<>>
    /\ \A i \in 1..Len(arg.params.diagnostics) :
          ActionsFor(arg.params.diagnostics[i]).actions = <<>>

\* the answer holds one generic action: the command sysy.genericFix, no edit
OneGenericAction ==
    /\ Len(ActionsOf("createGenericFix")) = 1
    /\ ActionsOf("createGenericFix")[1].edit = NoEdit
    /\ ActionsOf("createGenericFix")[1].command.command = "sysy.genericFix"

\* C13: whenever the batch is not empty and no resolver produced an action for
\* it, the result of getCodeActions holds exactly one generic action with the
\* command sysy.genericFix and no edit, also when a single-line selection adds
\* the extract actions.
C13_GenericFix == NothingResolved => OneGenericAction

\* C13, what the method does: the generic action is the whole answer when
\* there is no single-line selection, and is left out when there is one
C13_OnlyWithoutSelection ==
    NothingResolved =>
        IF SingleLineSelection(arg.params.range)
        THEN ActionsOf("createGenericFix") = <<>> /\ Len(out.actions) = 2
        ELSE OneGenericAction /\ Len(out.actions) = 1

\* a diagnostic no resolver answers was asked about with a selection, and the
\* answer is the two extract actions
C13_Suppressed ==
    /\ NothingResolved
    /\ SingleLineSelection(arg.params.range)
    /\ ActionsOf("createGenericFix") = <<>>
    /\ Len(ActionsOf("extractFunction")) = 1
    /\ Len(ActionsOf("extractVariable")) = 1

\* the two extract actions as addRefactoringActions builds them for the
\* request: the command with uri and range, and the edit over the range
ExtractActions ==
    <<CodeAction("extractFunction", "refactor.extract", NoEdit,
                 Command("sysy.extractFunction",
                         [uri |-> "uri", range |-> arg.params.range])),
      CodeAction("extractVariable", "refactor.extract",
                 TextEdit(arg.params.range,
                          <<"t", "e", "m", "p", "_", "v", "a", "r", " ", "=", " ">> \o GetText(arg.text, arg.params.range) \o <<";">>),
                 NoCommand)>>

\* the request range lies on one line and is not empty
OneLineNotEmpty ==
    /\ arg.params.range.start.line = arg.params.range.end.line
    /\ arg.params.range.start.character # arg.params.range.end.character

\* the answer ends in the two extract actions and holds no other of their kind
ExtractActionsAppended ==
    /\ Len(out.actions) >= 2
    /\ SubSeq(out.actions, Len(out.actions) - 1, Len(out.actions)) = ExtractActions
    /\ Len(SelectSeq(out.actions, LAMBDA a : a.kind = "refactor.extract")) = 2

\* C14: getCodeActions appends the actions "extract to function" (command
\* sysy.extractFunction with uri and range) and "extract to variable" exactly
\* when the request range is on one line and not empty, whatever diagnostics
\* the request carries; a range over several lines or an empty one adds neither.
C14_ExtractActions ==
    op = "getCodeActions" =>
        IF OneLineNotEmpty THEN ExtractActionsAppended
        ELSE SelectSeq(out.actions, LAMBDA a : a.kind = "refactor.extract") = <<>>

\* C14, when no resolver throws: the two actions are appended exactly for a
\* non-empty range on one line; after a throw they are not
C14_UnlessThrown ==
    op = "getCodeActions" =>
        IF OneLineNotEmpty /\ ~out.caught THEN ExtractActionsAppended
        ELSE SelectSeq(out.actions, LAMBDA a : a.kind = "refactor.extract") = <<>>

\* `int` was selected on the line 0 of the function with the brace in its
\* comment, and the answer holds the command action alone
C14_LostToThrow ==
    /\ op = "getCodeActions"
    /\ OneLineNotEmpty
    /\ out.caught
    /\ Len(out.actions) = 1
    /\ out.actions[1].fix = "createMissingReturnFix"

\* the look of the dispatch whose resolver returned the primary action of the
\* diagnostic; none when no resolver did
GaveFor(diagnostic) ==
    SelectSeq(Consulted(diagnostic, arg.text), LAMBDA look : look.gave)

\* the primary action of a diagnostic
PrimaryOf(diagnostic) ==
    Resolve(GaveFor(diagnostic)[1].resolver, diagnostic, arg.text).action

\* what createAdditionalFixes makes for the binding that gave the primary action
SupplementaryOf(diagnostic) ==
    createAdditionalFixes(GaveFor(diagnostic)[1].key, diagnostic, arg.text)

\* the actions of one diagnostic: nothing without a primary action, otherwise
\* the primary action and then the supplementary actions that are there; the
\* primary action alone when making the supplementary ones threw
SegmentOf(diagnostic) ==
    IF GaveFor(diagnostic) = <<>> THEN <<>>
    ELSE IF \E k \in 1..Len(SupplementaryOf(diagnostic)) : SupplementaryOf(diagnostic)[k].raised
    THEN <<PrimaryOf(diagnostic)>>
    ELSE <<PrimaryOf(diagnostic)>>
             \o [k \in 1..Len(SelectSeq(SupplementaryOf(diagnostic),
                                        LAMBDA r : r.action # Undefined_)) |->
                    SelectSeq(SupplementaryOf(diagnostic),
                              LAMBDA r : r.action # Undefined_)[k].action]

\* the part of the answer that comes from the diagnostics: the answer without
\* the generic action and without the two extract actions at its end
FromDiagnostics ==
    IF Len(out.actions) = 1 /\ out.actions[1].fix = "createGenericFix" THEN <<>>
    ELSE IF ~out.caught /\ SingleLineSelection(arg.params.range)
    THEN SubSeq(out.actions, 1, Len(out.actions) - 2)
    ELSE out.actions

\* C20: in the list returned by getCodeActions the actions of the diagnostics
\* stand in the order of the diagnostics in the request; within one diagnostic
\* the primary action comes first and its supplementary actions directly after
\* it; supplementary actions are there only for a diagnostic whose resolver
\* returned a primary action, and no entry of the list is undefined.
C20_ActionOrder ==
    op = "getCodeActions" =>
        /\ \E n \in 0..Len(arg.params.diagnostics) :
              /\ FromDiagnostics = Concat([i \in 1..n |-> SegmentOf(arg.params.diagnostics[i])])
              /\ n = Len(arg.params.diagnostics) \/ out.caught
        /\ \A k \in 1..Len(out.actions) : out.actions[k] # Undefined_

\* a request with two diagnostics was answered: each has a primary and a
\* supplementary action, and the four stand in the order of the request
C20_Witness ==
    /\ op = "getCodeActions"
    /\ ~out.caught
    /\ Len(arg.params.diagnostics) = 2
    /\ Len(SegmentOf(arg.params.diagnostics[1])) = 2
    /\ Len(SegmentOf(arg.params.diagnostics[2])) = 2
    /\ SegmentOf(arg.params.diagnostics[1]) # SegmentOf(arg.params.diagnostics[2])
    /\ SubSeq(out.actions, 1, 4)
           = SegmentOf(arg.params.diagnostics[1]) \o SegmentOf(arg.params.diagnostics[2])

\* a diagnostic whose primary action is there and whose supplementary resolver
\* returned undefined was answered with the primary action alone
C20_UndefinedDropped ==
    /\ op = "getCodeActions"
    /\ Len(arg.params.diagnostics) = 1
    /\ GaveFor(arg.params.diagnostics[1]) # <<>>
    /\ \E k \in 1..Len(SupplementaryOf(arg.params.diagnostics[1])) :
           /\ ~SupplementaryOf(arg.params.diagnostics[1])[k].raised
           /\ SupplementaryOf(arg.params.diagnostics[1])[k].action = Undefined_
    /\ FromDiagnostics = <<PrimaryOf(arg.params.diagnostics[1])>>

\* the diagnostic carries the payload its code goes with
WithPayload(diagnostic) ==
    \/ /\ diagnostic.code = ERROR_CODES.UNDEFINED_VARIABLE
       /\ "variableName" \in DOMAIN diagnostic.data
    \/ /\ diagnostic.code = ERROR_CODES.PARAMETER_MISMATCH
       /\ {"expectedCount", "actualCount"} \subseteq DOMAIN diagnostic.data
    \/ /\ diagnostic.code = ERROR_CODES.ARRAY_SIZE_OVERFLOW
       /\ "arrayName" \in DOMAIN diagnostic.data

\* the first action is the fix of the resolver bound to the code, made for the
\* values of the payload
FixForPayload(diagnostic, actions) ==
    /\ actions # <<>>
    /\ actions[1].fix = CodeFix(diagnostic.code)
    /\ diagnostic.code = ERROR_CODES.UNDEFINED_VARIABLE
          => Includes(actions[1].edit.newText,
                      <<"i", "n", "t", " ">> \o diagnostic.data.variableName \o <<" ", "=", " ", "0", ";">>)
    /\ diagnostic.code = ERROR_CODES.PARAMETER_MISMATCH
          => actions[1].command.arguments.expectedCount = diagnostic.data.expectedCount
    /\ diagnostic.code = ERROR_CODES.ARRAY_SIZE_OVERFLOW
          => Includes(actions[1].edit.newText, diagnostic.data.arrayName \o <<"[">>)

\* C21: a resolver takes names and counts from the diagnostic's payload when
\* it is there and parses the message only when it is absent: a diagnostic
\* with code UNDEFINED_VARIABLE and payload variableName (or PARAMETER_MISMATCH
\* with the two counts, or ARRAY_SIZE_OVERFLOW with arrayName) yields its fix
\* for the payload's values whatever the wording of the message.
C21_PayloadFirst ==
    (op = "createCodeActionsForDiagnostic" /\ WithPayload(arg.diagnostic)) =>
        /\ ~out.raised
        /\ FixForPayload(arg.diagnostic, out.actions)

\* C21, what the resolvers do: the payload is never read; the actions are
\* those of the same diagnostic without payload
C21_MessageOnly ==
    op = "createCodeActionsForDiagnostic" =>
        out.actions =
            createCodeActionsForDiagnostic([arg.diagnostic EXCEPT !.data = [none |-> TRUE]],
                                           arg.text, <<>>).actions

\* an UNDEFINED_VARIABLE diagnostic with its payload and another wording was
\* dispatched: the resolver bound to the code returned nothing and no action
\* came out
C21_RewordedNoFix ==
    /\ op = "createCodeActionsForDiagnostic"
    /\ arg.diagnostic.code = ERROR_CODES.UNDEFINED_VARIABLE
    /\ arg.diagnostic.data.variableName = N_a
    /\ arg.diagnostic.message = Reworded(arg.diagnostic).message
    /\ out.consulted[1].resolver = "createUndeclaredVarFix"
    /\ ~out.consulted[1].gave
    /\ out.actions = <<>>

\* the same diagnostic in the validator's wording was dispatched and the fix
\* for the payload's name came out
C21_WordedFix ==
    /\ op = "createCodeActionsForDiagnostic"
    /\ arg.diagnostic.code = ERROR_CODES.UNDEFINED_VARIABLE
    /\ arg.diagnostic.message # Reworded(arg.diagnostic).message
    /\ FixForPayload(arg.diagnostic, out.actions)

\* the action carries a direct edit with a text change
HasTextChange(action) == action.edit # NoEdit /\ action.edit # EmptyEdit

\* the action carries a deferred command with a name and arguments
HasCommand(action) ==
    /\ action.command # NoCommand
    /\ action.command.command # ""
    /\ DOMAIN action.command.arguments # {}

\* C28: every code action getCodeActions returns, for any batch of diagnostics
\* and any selection, carries a direct edit with at least one text change or a
\* deferred command with a name and arguments.
C28_EditOrCommand ==
    op = "getCodeActions" =>
        \A k \in 1..Len(out.actions) :
            HasTextChange(out.actions[k]) \/ HasCommand(out.actions[k])

\* C28, what holds: an action has a text change or a command, or it was built
\* by createTypeMismatchFix and has neither; no action has both
C28_AllButTypeMismatch ==
    op = "getCodeActions" =>
        \A k \in 1..Len(out.actions) :
            /\ (HasTextChange(out.actions[k]) \/ HasCommand(out.actions[k]))
                  <=> out.actions[k].fix # "createTypeMismatchFix"
            /\ ~(HasTextChange(out.actions[k]) /\ HasCommand(out.actions[k]))

\* a type mismatch was asked about and an action without change and command
\* came back
C28_EmptyAction ==
    /\ op = "getCodeActions"
    /\ \E k \in 1..Len(out.actions) :
          /\ out.actions[k].fix = "createTypeMismatchFix"
          /\ out.actions[k].edit = EmptyEdit
          /\ out.actions[k].command = NoCommand

\* a request came back with an action that edits and one that defers
C28_BothKinds ==
    /\ op = "getCodeActions"
    /\ \E k \in 1..Len(out.actions) : HasTextChange(out.actions[k])
    /\ \E k \in 1..Len(out.actions) : HasCommand(out.actions[k])
---------------------------------------------------------------------------
(* Properties of the return check and of the checks taken together *)

\* the codes of the diagnostics of a check, in order
CodesOf(diags) == [k \in 1..Len(diags) |-> diags[k].code]

\* the positions of the return statements among the top-level items of a body
TopLevelReturns(funcDef) ==
    {i \in 1..Len(funcDef.block.blockItems) :
        funcDef.block.blockItems[i].blockStmt.type = "Stmtreturn"}

\* the body holds a return inside a while or an if and none at the top level
OnlyNestedReturns(funcDef) ==
    /\ TopLevelReturns(funcDef) = {}
    /\ \E i \in 1..Len(funcDef.block.blockItems) :
          funcDef.block.blockItems[i].blockStmt.type \in {"Stmtwhile", "Stmtelif"}

\* C15: checkFunctionReturnType decides from the top-level statements only: a
\* non-void function without a top-level return gets MISSING_RETURN, also when
\* returns are nested in an if or a while; a non-void function with a
\* top-level return without an expression gets EMPTY_RETURN; a void function
\* with a top-level return with an expression gets VOID_RETURN_VALUE.
C15_ReturnShape ==
    op = "checkFunctionReturnType" =>
        LET f == arg.funcDef
            items == f.block.blockItems
            returns == TopLevelReturns(f)
        IN  /\ (f.functype # T_void /\ returns = {})
                  => CodesOf(out.diags) = <<ERROR_CODES.MISSING_RETURN>>
            /\ (f.functype # T_void /\ \E i \in returns : ~items[i].blockStmt.tobereturn)
                  => CodesOf(out.diags) = <<ERROR_CODES.EMPTY_RETURN>>
            /\ (f.functype = T_void /\ \E i \in returns : items[i].blockStmt.tobereturn)
                  => CodesOf(out.diags) = <<ERROR_CODES.VOID_RETURN_VALUE>>

\* C15, what the check does: of the top-level returns the last one decides
C15_LastReturnDecides ==
    op = "checkFunctionReturnType" =>
        LET f == arg.funcDef
            items == f.block.blockItems
            returns == TopLevelReturns(f)
            last == CHOOSE i \in returns : \A j \in returns : j <= i
        IN  CodesOf(out.diags) =
                IF f.functype # T_void /\ returns = {} THEN <<ERROR_CODES.MISSING_RETURN>>
                ELSE IF f.functype # T_void /\ ~items[last].blockStmt.tobereturn
                THEN <<ERROR_CODES.EMPTY_RETURN>>
                ELSE IF f.functype = T_void /\ returns # {} /\ items[last].blockStmt.tobereturn
                THEN <<ERROR_CODES.VOID_RETURN_VALUE>>
                ELSE <<>>

\* `int f() { return; return 1; }` was checked and nothing was reported
C15_EarlierReturnMissed ==
    /\ op = "checkFunctionReturnType"
    /\ arg.funcDef = FuncDef(N_f, T_int, Block(<<Item(Return(FALSE)), Item(Return(TRUE))>>))
    /\ out.diags = <<>>

\* a non-void function whose only return is nested got MISSING_RETURN
C15_NestedReached ==
    /\ op = "checkFunctionReturnType"
    /\ arg.funcDef.functype = T_int
    /\ OnlyNestedReturns(arg.funcDef)
    /\ CodesOf(out.diags) = <<ERROR_CODES.MISSING_RETURN>>

\* the checks registered for the nodes of the document
Checks ==
    {"checkUniqueDef", "hoverTipsArray", "hoverTipsLval", "checkVariableDeclared",
     "hoverTipsFunc", "checkFunctionDeclared", "checkUniqueFuncName",
     "checkBreakContinueInNonLoopBlocks", "checkFunctionParameterMismatch",
     "checkFunctionReturnType", "checkDefTypeMatchFuncReturnType"}

\* C16: no validation check raises a fault to its caller, whatever well-formed
\* node it is given; an array definition with a first dimension and no
\* initializer list (`int arr[3];`), or with a size that is not a literal,
\* makes hoverTipsArray return normally without a diagnostic.
C16_NoFault ==
    op \in Checks =>
        /\ ~out.raised
        /\ (/\ op = "hoverTipsArray"
            /\ Len(arg.arr.index) >= 1
            /\ (arg.arr.Init = <<>> \/ arg.arr.index[1] = NonLiteralSize))
              => out.diags = <<>>

\* C16, what the checks do: the one fault is that of hoverTipsArray on an
\* array with a dimension and no initializer list; a size that is not a
\* literal, with a list, is passed over without a diagnostic
C16_FaultOnlyWithoutList ==
    op \in Checks =>
        /\ out.raised <=> (/\ op = "hoverTipsArray"
                           /\ Len(arg.arr.index) >= 1
                           /\ arg.arr.Init = <<>>)
        /\ (/\ op = "hoverTipsArray"
            /\ Len(arg.arr.index) >= 1
            /\ arg.arr.index[1] = NonLiteralSize)
              => out.diags = <<>>

\* `int arr[3];` was checked and hoverTipsArray threw
C16_ArrayWithoutList ==
    /\ op = "hoverTipsArray"
    /\ arg.arr = VarDef(N_arr, <<LiteralSize(3)>>, <<>>)
    /\ out.raised

\* an array with a size that is not a literal and a list of two elements was
\* checked; the check returned without a diagnostic
C16_NonLiteralPassed ==
    /\ op = "hoverTipsArray"
    /\ arg.arr = VarDef(N_arr, <<NonLiteralSize>>, <<InitList(2)>>)
    /\ ~out.raised
    /\ out.diags = <<>>

\* the nodes of the open document, by position
NodesOfType(types) == {i \in 1..Len(ast.nodes) : ast.nodes[i].type \in types}

\* every variable and function reference of the document is resolved
AllResolved ==
    /\ \A i \in NodesOfType({"VariableLVal"}) : ast.nodes[i].value.ref.resolved
    /\ \A i \in NodesOfType({"FuncRParams", "FunctionCall"}) : ast.nodes[i].funcname.ref.resolved

\* the names of a list of named nodes are pairwise different
Distinct(named) == \A i, j \in 1..Len(named) : named[i].name = named[j].name => i = j

\* no name is declared twice in a group or in the function list
NothingTwice ==
    /\ \A i \in NodesOfType({"Decl"}) : Distinct(ast.nodes[i].defs)
    /\ \A i \in NodesOfType({"CompUnit"}) : Distinct(ast.nodes[i].functions)

\* every call passes as many arguments as its target declares
CountsAgree ==
    \A i \in NodesOfType({"FuncRParams"}) :
        Len(ast.nodes[i].funcRparams) = Len(ast.nodes[i].funcname.ref.funcFparam)

\* every non-void function has a top-level return with an expression
ValueReturned ==
    \A i \in NodesOfType({"FuncDef"}) :
        ast.nodes[i].functype # T_void =>
            \E k \in TopLevelReturns(ast.nodes[i]) :
                ast.nodes[i].block.blockItems[k].blockStmt.tobereturn

\* no break or continue, and no call of a void function
NoJumpNoVoidCall ==
    /\ \A i \in NodesOfType({"FuncDef"}) : BreakContinuePaths(ast.nodes[i].block) = {}
    /\ \A i \in NodesOfType({"FuncRParams"}) : ast.nodes[i].funcname.ref.functype # T_void

WellFormed ==
    /\ ast # NoDocument
    /\ AllResolved
    /\ NothingTwice
    /\ CountsAgree
    /\ ValueReturned
    /\ NoJumpNoVoidCall

\* the last top-level return of every function fits its type: with an
\* expression in a non-void function, without one in a void function
LastReturnFits ==
    \A i \in NodesOfType({"FuncDef"}) :
        \A k \in TopLevelReturns(ast.nodes[i]) :
            (\A l \in TopLevelReturns(ast.nodes[i]) : l <= k)
                => (ast.nodes[i].block.blockItems[k].blockStmt.tobereturn
                        <=> ast.nodes[i].functype # T_void)

\* no initializer list is longer than a literal first dimension
ListsFit ==
    \A i \in NodesOfType({"VarDef"}) :
        (Len(ast.nodes[i].index) >= 1 /\ Len(ast.nodes[i].Init) >= 1)
            => \/ ParseInt(ast.nodes[i].index[1].value).nan
               \/ Len(ast.nodes[i].Init[1].manyInit) <= ParseInt(ast.nodes[i].index[1].value).v

ErrorsOf(outcome) == {k \in 1..Len(outcome.diags) : outcome.diags[k].severity = "error"}

C17_OverflowReported ==
    /\ runs >= 1 /\ WellFormed /\ LastReturnFits
    /\ \E k \in ErrorsOf(diagnostics) :
           diagnostics.diags[k].code = ERROR_CODES.ARRAY_SIZE_OVERFLOW

\* a program that meets the listed conditions and whose function returns a
\* value and then returns none was validated: EMPTY_RETURN came out
C17_LastReturnReported ==
    /\ runs >= 1 /\ WellFormed /\ ListsFit
    /\ \E k \in ErrorsOf(diagnostics) :
           diagnostics.diags[k].code \in {ERROR_CODES.EMPTY_RETURN, ERROR_CODES.VOID_RETURN_VALUE}

\* a program that meets all these conditions and declares an array with a
\* dimension and no initializer was validated: no diagnostic is an error, and
\* one check raised
C17_RaisedInstead ==
    /\ runs >= 1 /\ WellFormed /\ LastReturnFits /\ ListsFit
    /\ ErrorsOf(diagnostics) = {}
    /\ diagnostics.faults = 1

\* the table keys that spell a pattern: they hold a regular-expression
\* metacharacter
PatternKeys ==
    {k \in 1..Len(ERROR_DETAILS) :
        \E i \in 1..Len(ERROR_DETAILS[k].key) : ERROR_DETAILS[k].key[i] \in RegexMeta}

\* the pattern keys that match the message when taken as a regular expression
PatternHits(message) ==
    {k \in PatternKeys :
        /\ PatternValid(ERROR_DETAILS[k].key)
        /\ Match(CompilePattern(ERROR_DETAILS[k].key), message).ok}

\* C18: getEnhancedMessage looks a message up in two passes over the table,
\* first the keys contained in it as plain substrings, then the pattern keys
\* that match it as regular expressions; the first hit wins and its
\* explanation and suggestion are appended to the raw message, so a message
\* that only a pattern key matches is enriched with that entry.
C18_TwoPassLookup ==
    (op = "getEnhancedMessage" /\ arg.message # <<>>) =>
        /\ ~out.raised
        /\ out.value =
              IF SubstringHits(arg.message) # {}
              THEN EnhancedText(arg.message, ERROR_DETAILS[Least(SubstringHits(arg.message))])
              ELSE IF PatternHits(arg.message) # {}
              THEN EnhancedText(arg.message, ERROR_DETAILS[Least(PatternHits(arg.message))])
              ELSE arg.message

\* C18, what the lookup does: the first contained key wins, and a message that
\* contains no key comes back as it is, whatever pattern key matches it
C18_ContainedKeysOnly ==
    (op = "getEnhancedMessage" /\ arg.message # <<>>) =>
        /\ ~out.raised
        /\ out.value =
              IF SubstringHits(arg.message) # {}
              THEN EnhancedText(arg.message, ERROR_DETAILS[Least(SubstringHits(arg.message))])
              ELSE arg.message

\* the array check's message was looked up: only the pattern key matches it,
\* and it came back without explanation and suggestion
C18_PatternKeyUnused ==
    /\ op = "getEnhancedMessage"
    /\ arg.message = L_ArrPre \o N_arr \o L_ArrPost
    /\ SubstringHits(arg.message) = {}
    /\ PatternHits(arg.message) = {15}
    /\ RegexKeys = {}
    /\ out.value = arg.message

\* a message that contains two keys was enriched with the earlier one
C18_FirstHitWins ==
    /\ op = "getEnhancedMessage"
    /\ Cardinality(SubstringHits(arg.message)) >= 2
    /\ out.value = EnhancedText(arg.message, ERROR_DETAILS[Least(SubstringHits(arg.message))])

Categories ==
    {ErrorCategory.VARIABLE, ErrorCategory.FUNCTION, ErrorCategory.ARRAY, ErrorCategory.TYPE,
     ErrorCategory.CONTROL, ErrorCategory.OTHER_}

\* C19: getErrorCategory returns, for every string and the empty one too, one
\* of VARIABLE, FUNCTION, ARRAY, TYPE, CONTROL, OTHER: the category of the
\* first table entry hit in the two-pass order (contained keys, then pattern
\* keys), and OTHER when no entry matches.
C19_CategoryLookup ==
    op = "getErrorCategory" =>
        /\ ~out.raised
        /\ out.category \in Categories
        /\ out.category =
              IF SubstringHits(arg.message) # {}
              THEN ERROR_DETAILS[Least(SubstringHits(arg.message))].category
              ELSE IF PatternHits(arg.message) # {}
              THEN ERROR_DETAILS[Least(PatternHits(arg.message))].category
              ELSE ErrorCategory.OTHER_

\* C19, what the lookup does: nothing for the empty string, otherwise the
\* category of the first contained key, and OTHER when no key is contained
C19_ContainedKeysOrNothing ==
    op = "getErrorCategory" =>
        /\ ~out.raised
        /\ out.category =
              IF arg.message = <<>> THEN "undefined"
              ELSE IF SubstringHits(arg.message) # {}
              THEN ERROR_DETAILS[Least(SubstringHits(arg.message))].category
              ELSE ErrorCategory.OTHER_

\* the category of the array check's message was asked for: the pattern key
\* of an ARRAY entry matches it, and OTHER came back
C19_ArrayMessageOther ==
    /\ op = "getErrorCategory"
    /\ arg.message = L_ArrPre \o N_arr \o L_ArrPost
    /\ ERROR_DETAILS[Least(PatternHits(arg.message))].category = ErrorCategory.ARRAY
    /\ out.category = ErrorCategory.OTHER_

\* the category of the empty string was asked for: none of the six came back
C19_EmptyUndefined ==
    /\ op = "getErrorCategory"
    /\ arg.message = <<>>
    /\ out.category \notin Categories

\* exactly one diagnostic, with the code, and with the name under the field
ReportsName(diags, code, field, name) ==
    /\ Len(diags) = 1
    /\ diags[1].code = code
    /\ diags[1].severity = "error"
    /\ field \in DOMAIN diags[1].data
    /\ diags[1].data[field] = name

C22_FunctionReported ==
    /\ op = "checkFunctionDeclared"
    /\ ~arg.funcCall.funcname.ref.resolved
    /\ ReportsName(out.diags, ERROR_CODES.UNDEFINED_FUNCTION, "functionName", N_f)

\* a use that is resolved was checked and nothing was reported
C22_ResolvedSilent ==
    /\ op = "checkVariableDeclared"
    /\ arg.lval.value.ref.resolved
    /\ out.diags = <<>>

\* the check reported VOID_ASSIGNMENT, once
VoidAssignmentReported ==
    /\ Len(out.diags) = 1
    /\ out.diags[1].code = ERROR_CODES.VOID_ASSIGNMENT

\* the call's target is a function declared void
CallsVoid(func) == func.funcname.ref.resolved /\ func.funcname.ref.functype = T_void

\* C23: VOID_ASSIGNMENT is emitted for a call to a void function exactly when
\* the call stands in an expression or on the right of an assignment; a call
\* to a void function that is a statement of its own, and every call to a
\* non-void or unresolved function, emits none.
C23_VoidAssignment ==
    op = "checkDefTypeMatchFuncReturnType" =>
        /\ ~out.raised
        /\ IF CallsVoid(arg.func) /\ arg.position # "statement"
           THEN VoidAssignmentReported
           ELSE out.diags = <<>>

\* C23, what the check does: every call to a void function is reported,
\* wherever it stands, and no other call is
C23_EveryVoidCall ==
    op = "checkDefTypeMatchFuncReturnType" =>
        /\ ~out.raised
        /\ IF CallsVoid(arg.func) THEN VoidAssignmentReported ELSE out.diags = <<>>

\* a call to a void function that is a statement of its own was reported
C23_StatementReported ==
    /\ op = "checkDefTypeMatchFuncReturnType"
    /\ CallsVoid(arg.func)
    /\ arg.position = "statement"
    /\ VoidAssignmentReported

\* a call to an unresolved function on the right of an assignment was passed
C23_UnresolvedPassed ==
    /\ op = "checkDefTypeMatchFuncReturnType"
    /\ ~arg.func.funcname.ref.resolved
    /\ arg.position = "assignment"
    /\ out.diags = <<>>
---------------------------------------------------------------------------
(* SysyHoverProvider: the node under the cursor and the hover texts *)

\* an AST node as the hover provider walks it: its $type, its $cstNode (absent
\* for a node the parser made up), and the values of its own fields in key
\* order; the keys that start with "$" are not among them
AstNode(type, cst, fields) == [type |-> type, cst |-> cst, fields |-> fields]

Cst(offset, end) == [has |-> TRUE, offset |-> offset, end |-> end]

NoCst == [has |-> FALSE]

\* field values: a node, an array, and the values that hold no node: a string
\* or number, a cross-reference (an object without $type), a falsy value
NodeValue(node) == [kind |-> "node", node |-> node]

ArrayValue(items) == [kind |-> "array", items |-> items]

TextValue == [kind |-> "text"]

ReferenceValue == [kind |-> "reference"]

FalsyValue == [kind |-> "falsy"]

\* the nodes among the items of an array value
NodeItems(items) ==
    [k \in 1..Len(SelectSeq(items, LAMBDA item : item.kind = "node")) |->
        SelectSeq(items, LAMBDA item : item.kind = "node")[k].node]

\* streamChildren: the child nodes in key order, the items of an array in
\* index order
streamChildren(node) ==
    Concat([k \in 1..Len(node.fields) |->
               CASE node.fields[k].kind = "array" -> NodeItems(node.fields[k].items)
                 [] node.fields[k].kind = "node" -> <<node.fields[k].node>>
                 [] node.fields[k].kind \notin {"array", "node"} -> <<>>])

\* a seeded fault: the end of the span is not part of it
HoldsBeforeEnd(child, offset) ==
    child.cst.has /\ child.cst.offset <= offset /\ child.cst.end > offset

\* child.$cstNode && child.$cstNode.offset <= offset && child.$cstNode.end >= offset
Holds(child, offset) ==
    child.cst.has /\ child.cst.offset <= offset /\ child.cst.end >= offset

\* the first child of the node that holds the offset, 0 for none
FirstHolding(node, offset) ==
    LET holding == {k \in 1..Len(streamChildren(node)) : Holds(streamChildren(node)[k], offset)}
    IN  IF holding = {} THEN 0 ELSE CHOOSE k \in holding : \A j \in holding : k <= j

RECURSIVE getNodeAtPosition2(_, _)
\* getNodeAtPosition2: the deepest node below `node` found by going into the
\* first child that holds the offset; Undefined_ when no child holds it
getNodeAtPosition2(node, offset) ==
    The({IF k = 0 THEN Undefined_
         ELSE The({IF deeperNode # Undefined_ THEN deeperNode ELSE streamChildren(node)[k] :
                      deeperNode \in {getNodeAtPosition2(streamChildren(node)[k], offset)}}) :
            k \in {FirstHolding(node, offset)}})

\* getNodeAtPosition: the same from the root, which is returned when none of
\* its children holds the offset
getNodeAtPosition(rootNode, offset) ==
    The({IF k = 0 THEN rootNode
         ELSE The({IF deeperNode # Undefined_ THEN deeperNode ELSE streamChildren(rootNode)[k] :
                      deeperNode \in {getNodeAtPosition2(streamChildren(rootNode)[k], offset)}}) :
            k \in {FirstHolding(rootNode, offset)}})

Leaf(cst) == AstNode("VariableLVal", cst, <<ReferenceValue>>)

\* the spans of the nodes below the root: every span within the text, which
\* need not lie within the span of the parent, and no span at all
Csts == {Cst(offset, end) : offset \in 0..MaxOffset, end \in 1..MaxOffset} \cup {NoCst}

\* a definition with a name and an array of up to two leaves
Groups ==
    {AstNode("Decl", cst, <<TextValue, ArrayValue(<<TextValue>> \o items)>>) :
        cst \in Csts,
        items \in {<<>>} \cup {<<NodeValue(Leaf(c))>> : c \in Csts}
                         \cup {<<NodeValue(Leaf(c)), NodeValue(Leaf(Cst(0, MaxOffset)))>> :
                                  c \in Csts}}

\* a statement that holds one node, which holds a leaf over the whole text
Holders ==
    {AstNode("Stmtexp", cst, <<FalsyValue, NodeValue(AstNode("Exp", Cst(0, MaxOffset),
                                                           <<NodeValue(Leaf(inner))>>))>>) :
        cst \in {Cst(0, MaxOffset), Cst(1, 1), NoCst}, inner \in {Cst(0, MaxOffset), NoCst}}

\* documents: the root with an array of at most one group, then a field that
\* holds a statement or no node
Roots ==
    {AstNode("CompUnit", Cst(0, MaxOffset), <<ArrayValue(groups), single>>) :
        groups \in {<<>>} \cup {<<NodeValue(g)>> : g \in Groups},
        single \in {TextValue} \cup {NodeValue(h) : h \in Holders}}

\* textDocument/hover up to the node under the cursor
GetNodeAtPosition ==
    \E rootNode \in Roots, offset \in 0..MaxOffset :
        /\ Call("getNodeAtPosition", [rootNode |-> rootNode, offset |-> offset],
                [node |-> getNodeAtPosition(rootNode, offset)])
        /\ UNCHANGED <<DocumentVars, reported, funcNames, DebuggerVars>>

\* "未知类型"
L_UnknownType == <<"u672a", "u77e5", "u7c7b", "u578b">>

\* the container of a definition: absent, or a node with or without a btype
NoContainer == [present |-> FALSE, hasBtype |-> FALSE, btype |-> Undefined]

Container(hasBtype, btype) == [present |-> TRUE, hasBtype |-> hasBtype, btype |-> btype]

\* a VarDef as the hover provider reads it: its name, its container, the text
\* of the parent of its CST node (Undefined when there is none), its
\* dimensions, and the texts of its single initializers
HoverVarDef(name, container, parentText, dims, inits) ==
    [type |-> "VarDef", name |-> name, container |-> container, parentText |-> parentText,
     index |-> [k \in 1..dims |-> TextValue],
     Init |-> [k \in 1..Len(inits) |-> [singleInit |-> <<inits[k]>>]]]

\* the type the container gives: its btype, or else what the text of the CST
\* parent spells; L_UnknownType when neither does
ContainerType(node) ==
    IF ~node.container.present THEN L_UnknownType
    ELSE IF node.container.hasBtype THEN node.container.btype
    ELSE IF node.parentText # Undefined /\ node.parentText # <<>>
    THEN IF Includes(node.parentText, <<"i", "n", "t", " ">>) THEN T_int
         ELSE IF Includes(node.parentText, <<"f", "l", "o", "a", "t", " ">>) THEN T_float
         ELSE L_UnknownType
    ELSE L_UnknownType

\* /^\d+$/
IsIntegerText(text) == text # <<>> /\ \A i \in 1..Len(text) : IsDigit(text[i])

\* [eE][-+]?\d+ over the whole text
IsExponentText(text) ==
    /\ Len(text) >= 2
    /\ text[1] \in {"e", "E"}
    /\ \/ IsIntegerText(Tail(text))
       \/ text[2] \in {"-", "+"} /\ IsIntegerText(SubSeq(text, 3, Len(text)))

\* /^\d+\.\d+([eE][-+]?\d+)?$/
IsDecimalText(text) ==
    \E dot \in 2..(Len(text) - 1) :
        /\ text[dot] = "."
        /\ IsIntegerText(SubSeq(text, 1, dot - 1))
        /\ \E last \in (dot + 1)..Len(text) :
              /\ IsIntegerText(SubSeq(text, dot + 1, last))
              /\ last = Len(text) \/ IsExponentText(SubSeq(text, last + 1, Len(text)))

\* the type read off the first initializer when the container gave none
InitType(node, varType) ==
    IF varType = L_UnknownType /\ Len(node.Init) > 0
            /\ node.Init[1].singleInit[1] # Undefined /\ node.Init[1].singleInit[1] # <<>>
    THEN IF IsIntegerText(node.Init[1].singleInit[1]) THEN T_int
         ELSE IF IsDecimalText(node.Init[1].singleInit[1]) THEN T_float
         ELSE varType
    ELSE varType

\* a seeded fault: the names count only when no type was found
NamedTypeIfUnknown(node, varType) ==
    IF node.name \in {<<"d", "e", "c", "i", "m", "a", "l">>, <<"o", "c", "t", "a", "l">>, <<"h", "e", "x">>} /\ varType = L_UnknownType
    THEN T_int ELSE varType

\* node.name === "decimal" || node.name === "octal" || node.name === "hex"
NamedType(node, varType) ==
    IF node.name \in {<<"d", "e", "c", "i", "m", "a", "l">>, <<"o", "c", "t", "a", "l">>, <<"h", "e", "x">>} THEN T_int ELSE varType

\* buildVarDefHoverContent: the type shown, and the two texts of the hover
buildVarDefHoverContent(node) ==
    The({[varType |-> varType,
          detail |-> <<"(", "u53d8", "u91cf", ")", " ">> \o node.name \o <<":", " ">> \o varType
                        \o (IF Len(node.index) > 0 THEN <<"[", "]">> ELSE <<>>),
          content |-> <<"u53d8", "u91cf", "u5b9a", "u4e49", "\n", "\n", "u7c7b", "u578b", ":", " ">> \o varType
                        \o (IF Len(node.index) > 0
                            THEN <<"\n", "\n", "u8fd9", "u662f", "u4e00", "u4e2a", "u6570", "u7ec4", "u53d8", "u91cf">> \o
                                 (IF Len(node.index) = 1 THEN <<"uff0c", "u7ef4", "u5ea6", "u4e3a", " ", "1">>
                                  ELSE <<"uff0c", "u7ef4", "u5ea6", "u4e3a", " ">> \o ToDigits(Len(node.index)))
                            ELSE <<>>)
                        \o (IF Len(node.Init) > 0 THEN <<"\n", "\n", "u5df2", "u521d", "u59cb", "u5316">> ELSE <<>>)] :
            varType \in {NamedType(node, InitType(node, ContainerType(node)))}})

\* the definitions hovered over
HoverVarDefs ==
    {HoverVarDef(name, container, parentText, dims, inits) :
        name \in {<<"x">>, <<"h", "e", "x">>, <<"d", "e", "c", "i", "m", "a", "l">>, <<"o", "c", "t", "a", "l">>},
        container \in {NoContainer, Container(FALSE, Undefined), Container(TRUE, T_int),
                       Container(TRUE, T_float)},
        parentText \in {Undefined, <<"i", "n", "t", " ", "x", " ", "=", " ", "1">>, <<"f", "l", "o", "a", "t", " ", "h", "e", "x", " ", "=", " ", "1", ".", "5">>, <<"x">>},
        dims \in 0..2,
        inits \in {<<>>, <<<<"1">>>>, <<<<"1", ".", "5">>>>, <<<<"2", ".", "5", "e", "-", "3">>>>, <<<<"a">>>>, <<Undefined>>}}

BuildVarDefHoverContent ==
    \E node \in HoverVarDefs :
        /\ Call("buildVarDefHoverContent", [node |-> node], buildVarDefHoverContent(node))
        /\ UNCHANGED <<DocumentVars, reported, funcNames, DebuggerVars>>

HoverNext ==
    \/ GetNodeAtPosition
    \/ BuildVarDefHoverContent
    \/ Respond

HoverSpec == Init /\ [][HoverNext]_vars

---------------------------------------------------------------------------
(* Properties of the hover provider *)

\* the node's source span contains the offset
SpanHolds(node, offset) ==
    node.cst.has /\ offset \in node.cst.offset..node.cst.end

\* the children of the node whose span contains the offset, by position
HoldingChildren(node, offset) ==
    {k \in 1..Len(streamChildren(node)) : SpanHolds(streamChildren(node)[k], offset)}

RECURSIVE Descent(_, _)
\* the node reached from `node` by taking, at each level, the first child in
\* field order whose span contains the offset, until no child does
Descent(node, offset) ==
    IF HoldingChildren(node, offset) = {} THEN node
    ELSE Descent(streamChildren(node)[CHOOSE k \in HoldingChildren(node, offset) :
                                         \A j \in HoldingChildren(node, offset) : k <= j],
                 offset)

\* C24: the node the context locator returns has no child whose span contains
\* the offset, and it is reached from the root by taking at each level the
\* first child in field order whose span contains the offset; when some child
\* of the root contains the offset, the span of the returned node contains it.
C24_InnermostNode ==
    op = "getNodeAtPosition" =>
        /\ out.node = Descent(arg.rootNode, arg.offset)
        /\ HoldingChildren(out.node, arg.offset) = {}
        /\ HoldingChildren(arg.rootNode, arg.offset) # {} => SpanHolds(out.node, arg.offset)

\* the first child of the root, a declaration, does not contain the offset;
\* the statement after it does, and the leaf two levels below it was returned
C24_Witness ==
    /\ op = "getNodeAtPosition"
    /\ Len(streamChildren(arg.rootNode)) = 2
    /\ HoldingChildren(arg.rootNode, arg.offset) = {2}
    /\ out.node.type = "VariableLVal"
    /\ SpanHolds(out.node, arg.offset)
    /\ out.node = streamChildren(streamChildren(streamChildren(arg.rootNode)[2])[1])[1]

\* no child of the root contains the offset and the root was returned
C24_RootReturned ==
    /\ op = "getNodeAtPosition"
    /\ streamChildren(arg.rootNode) # <<>>
    /\ HoldingChildren(arg.rootNode, arg.offset) = {}
    /\ out.node = arg.rootNode

\* two items of an array contain the offset and the first one was returned
C24_FirstOfTwo ==
    /\ op = "getNodeAtPosition"
    /\ \E k \in 1..Len(streamChildren(arg.rootNode)) :
           /\ HoldingChildren(streamChildren(arg.rootNode)[k], arg.offset) = {1, 2}
           /\ out.node = streamChildren(streamChildren(arg.rootNode)[k])[1]

\* the steps of the chain, each L_UnknownType when it gives no type: the
\* containing declaration, the text of the first initializer, the name
FromDeclaration(node) == ContainerType(node)

FromInitializer(node) ==
    IF Len(node.Init) = 0 \/ node.Init[1].singleInit[1] = Undefined THEN L_UnknownType
    ELSE IF IsIntegerText(node.Init[1].singleInit[1]) THEN T_int
    ELSE IF IsDecimalText(node.Init[1].singleInit[1]) THEN T_float
    ELSE L_UnknownType

FromName(node) ==
    IF node.name \in {<<"d", "e", "c", "i", "m", "a", "l">>, <<"o", "c", "t", "a", "l">>, <<"h", "e", "x">>} THEN T_int ELSE L_UnknownType

\* C25: the display type of a variable definition follows the priority chain
\* in order, each step used only when all earlier steps gave no type:
\* the containing declaration's type, then the integer- or decimal-looking
\* initializer text, then the hard-coded names decimal, octal, hex; a variable
\* named hex inside a float declaration is displayed as float.
C25_PriorityChain ==
    op = "buildVarDefHoverContent" =>
        out.varType =
            IF FromDeclaration(arg.node) # L_UnknownType THEN FromDeclaration(arg.node)
            ELSE IF FromInitializer(arg.node) # L_UnknownType THEN FromInitializer(arg.node)
            ELSE FromName(arg.node)

\* C25, what the hover does: the three names are shown as int whatever the
\* declaration and the initializer say; for every other name the declaration
\* comes before the initializer
C25_NamesOverride ==
    op = "buildVarDefHoverContent" =>
        out.varType =
            IF FromName(arg.node) # L_UnknownType THEN FromName(arg.node)
            ELSE IF FromDeclaration(arg.node) # L_UnknownType THEN FromDeclaration(arg.node)
            ELSE FromInitializer(arg.node)

\* the variable hex of a float declaration was hovered over and shown as int
C25_HexShownInt ==
    /\ op = "buildVarDefHoverContent"
    /\ arg.node.name = <<"h", "e", "x">>
    /\ arg.node.container = Container(TRUE, T_float)
    /\ arg.node.Init # <<>>
    /\ arg.node.Init[1].singleInit[1] = <<"1", ".", "5">>
    /\ out.varType = T_int
    /\ out.detail = <<"(", "u53d8", "u91cf", ")", " ", "h", "e", "x", ":", " ", "i", "n", "t">>

\* a variable of another name, without a declared type and with a decimal
\* initializer, was shown as float
C25_InitializerUsed ==
    /\ op = "buildVarDefHoverContent"
    /\ arg.node.name = <<"x">>
    /\ FromDeclaration(arg.node) = L_UnknownType
    /\ FromInitializer(arg.node) = T_float
    /\ out.varType = T_float
---------------------------------------------------------------------------
(* getErrorCode: the error code read back from the text of a diagnostic *)

\* a seeded fault: every text reads as no code
getErrorCodeNone(message) == "undefined"

getErrorCode(message) ==
    IF message = <<>> THEN "undefined"
    ELSE IF Includes(message, <<"u4f7f", "u7528", "u4e86", "u672a", "u5b9a", "u4e49", "u7684", "u53d8", "u91cf">>) \/ Includes(message, <<"u672a", "u58f0", "u660e", "u7684", "u53d8", "u91cf">>)
    THEN ERROR_CODES.UNDEFINED_VARIABLE
    ELSE IF Includes(message, <<"u65e0", "u6cd5", "u91cd", "u65b0", "u58f0", "u660e", "u5757", "u8303", "u56f4", "u53d8", "u91cf">>)
    THEN ERROR_CODES.DUPLICATE_DECLARATION
    ELSE IF Includes(message, <<"u6570", "u7ec4">>) /\ Includes(message, <<"u521d", "u59cb", "u5316", "u5143", "u7d20", "u6570", "u91cf", "u8d85", "u8fc7", "u4e86", "u6570", "u7ec4", "u5927", "u5c0f">>)
    THEN ERROR_CODES.ARRAY_SIZE_OVERFLOW
    ELSE IF Includes(message, <<"u8c03", "u7528", "u4e86", "u672a", "u5b9a", "u4e49", "u7684", "u51fd", "u6570">>)
    THEN ERROR_CODES.UNDEFINED_FUNCTION
    ELSE IF Includes(message, <<"u51fd", "u6570", "u540d">>) /\ Includes(message, <<"u5df2", "u7ecf", "u5b9a", "u4e49", "u8fc7">>)
    THEN ERROR_CODES.DUPLICATE_FUNCTION
    ELSE IF Includes(message, <<"u53c2", "u6570", "u4e2a", "u6570", "u4e0d", "u5339", "u914d">>)
    THEN ERROR_CODES.PARAMETER_MISMATCH
    ELSE IF Includes(message, <<"u975e", "u5faa", "u73af", "u5757", "u4e2d", "u4f7f", "u7528", "u4e86">>)
    THEN ERROR_CODES.INVALID_BREAK_CONTINUE
    ELSE IF Includes(message, <<"u6709", "u8fd4", "u56de", "u503c", "u7684", "u51fd", "u6570", "u7f3a", "u5c11">>)
    THEN ERROR_CODES.MISSING_RETURN
    ELSE IF Includes(message, <<"u6709", "u8fd4", "u56de", "u503c", "u7684", "u51fd", "u6570", "u4e0d", "u5e94", "u8fd4", "u56de", "u4e3a", "u7a7a">>)
    THEN ERROR_CODES.EMPTY_RETURN
    ELSE IF Includes(message, <<"v", "o", "i", "d", " ", "u51fd", "u6570", "u4e0d", "u5e94", "u5b58", "u5728", "u975e", "u7a7a", "u8fd4", "u56de", "u503c">>)
    THEN ERROR_CODES.VOID_RETURN_VALUE
    ELSE IF Includes(message, <<"u4e0d", "u80fd", "u5c06", "v", "o", "i", "d", "u7c7b", "u578b", "u53d8", "u91cf", "u53c2", "u4e0e", "u8fd0", "u7b97", "u6216", "u7528", "u4e8e", "u8d4b", "u503c">>)
    THEN ERROR_CODES.VOID_ASSIGNMENT
    ELSE IF Includes(message, <<"u7c7b", "u578b", "u4e0d", "u5339", "u914d">>) \/ Includes(message, <<"u65e0", "u6cd5", "u5c06", "u7c7b", "u578b">>)
    THEN ERROR_CODES.TYPE_MISMATCH
    ELSE IF Includes(message, <<"u7f3a", "u5c11", "u5206", "u53f7">>) \/ Includes(message, <<"u5e94", "u8be5", "u6709", "u5206", "u53f7">>)
    THEN ERROR_CODES.MISSING_SEMICOLON
    ELSE IF \/ Includes(message, <<"u62ec", "u53f7", "u4e0d", "u5339", "u914d">>) \/ Includes(message, <<"u7f3a", "u5c11", "u5de6", "u62ec", "u53f7">>)
            \/ Includes(message, <<"u7f3a", "u5c11", "u53f3", "u62ec", "u53f7">>) \/ Includes(message, <<"u62ec", "u53f7", "u672a", "u95ed", "u5408">>)
    THEN ERROR_CODES.UNMATCHED_BRACKETS
    ELSE IF Includes(message, <<"u672a", "u4f7f", "u7528", "u7684", "u53d8", "u91cf">>) \/ Includes(message, <<"u53d8", "u91cf", "u5df2", "u58f0", "u660e", "u4f46", "u4ece", "u672a", "u4f7f", "u7528">>)
    THEN ERROR_CODES.UNUSED_VARIABLE
    ELSE "undefined"

\* the diagnostics a check handed to accept() in the call just made
Emitted == IF "diags" \in DOMAIN out THEN out.diags ELSE <<>>

\* the codes whose validator text getErrorCode does not recognise
Unread ==
    {ERROR_CODES.INVALID_BREAK_CONTINUE, ERROR_CODES.MISSING_RETURN, ERROR_CODES.EMPTY_RETURN}

\* C26: for every diagnostic a validator emits, getErrorCode applied to its
\* enriched message returns the code the validator attached to it.
C26_CodeFromText ==
    \A i \in 1..Len(Emitted) : getErrorCode(Emitted[i].message) = Emitted[i].code

\* C26, what holds: the text gives back the attached code for every code but
\* the three of Unread, and gives no code at all for those three
C26_CodeOrNone ==
    \A i \in 1..Len(Emitted) :
        getErrorCode(Emitted[i].message) =
            IF Emitted[i].code \in Unread THEN "undefined" ELSE Emitted[i].code

\* a break outside a loop was reported with its code, and its text reads as no code
C26_BreakUnread ==
    \E i \in 1..Len(Emitted) :
        /\ Emitted[i].code = ERROR_CODES.INVALID_BREAK_CONTINUE
        /\ Includes(Emitted[i].message, L_BreakMsg)
        /\ getErrorCode(Emitted[i].message) = "undefined"

\* a missing return was reported with its code, and its text reads as no code
C26_MissingReturnUnread ==
    \E i \in 1..Len(Emitted) :
        /\ Emitted[i].code = ERROR_CODES.MISSING_RETURN
        /\ getErrorCode(Emitted[i].message) = "undefined"

\* an array overflow was reported and its text reads back as the same code
C26_OverflowRead ==
    \E i \in 1..Len(Emitted) :
        /\ Emitted[i].code = ERROR_CODES.ARRAY_SIZE_OVERFLOW
        /\ getErrorCode(Emitted[i].message) = ERROR_CODES.ARRAY_SIZE_OVERFLOW

\* the text a check built before the enrichment: an enriched message is the
\* text, the detail separator, and the entry's two texts
RawOf(message) ==
    IF Includes(message, L_DetailSep)
    THEN SubSeq(message, 1, IndexOf(message, L_DetailSep) - 1)
    ELSE message

\* the emitted diagnostics that carry a category in their payload
Categorised == {i \in 1..Len(Emitted) : Emitted[i].data.category # "none"}

\* C27: for every diagnostic a validator emits, getErrorCategory applied to
\* its raw message returns the category of the diagnostic's payload.
C27_CategoryFromText ==
    \A i \in Categorised :
        /\ ~getErrorCategory(RawOf(Emitted[i].message)).raised
        /\ getErrorCategory(RawOf(Emitted[i].message)).category = Emitted[i].data.category

\* the codes whose raw text contains no key of the table
Uncategorised ==
    {ERROR_CODES.ARRAY_SIZE_OVERFLOW, ERROR_CODES.DUPLICATE_FUNCTION,
     ERROR_CODES.INVALID_BREAK_CONTINUE, ERROR_CODES.MISSING_RETURN, ERROR_CODES.EMPTY_RETURN}

\* C27, what holds: the lookup never raises on a validator text, and gives the
\* payload's category for every code but those of Uncategorised, whose text
\* reads as OTHER
C27_CategoryOrOther ==
    \A i \in Categorised :
        /\ ~getErrorCategory(RawOf(Emitted[i].message)).raised
        /\ getErrorCategory(RawOf(Emitted[i].message)).category =
              IF Emitted[i].code \in Uncategorised THEN ErrorCategory.OTHER_
              ELSE Emitted[i].data.category

\* an array overflow was reported with the category ARRAY and its text reads
\* as OTHER
C27_OverflowOther ==
    \E i \in Categorised :
        /\ Emitted[i].code = ERROR_CODES.ARRAY_SIZE_OVERFLOW
        /\ Emitted[i].data.category = ErrorCategory.ARRAY
        /\ getErrorCategory(RawOf(Emitted[i].message)).category = ErrorCategory.OTHER_

\* a void call was reported with the category TYPE and its text reads as TYPE
C27_VoidType ==
    \E i \in Categorised :
        /\ Emitted[i].code = ERROR_CODES.VOID_ASSIGNMENT
        /\ Emitted[i].data.category = ErrorCategory.TYPE
        /\ getErrorCategory(RawOf(Emitted[i].message)).category = ErrorCategory.TYPE

\* a function defined twice was reported with the category FUNCTION and its
\* text reads as OTHER
C27_DuplicateFunctionOther ==
    \E i \in Categorised :
        /\ Emitted[i].code = ERROR_CODES.DUPLICATE_FUNCTION
        /\ Emitted[i].data.category = ErrorCategory.FUNCTION
        /\ getErrorCategory(RawOf(Emitted[i].message)).category = ErrorCategory.OTHER_
---------------------------------------------------------------------------
(* connection.onExecuteCommand: the commands the offered actions defer to *)

\* Command.create(title, command, ...args): the arguments an action's command
\* carries, in the order they were passed
CommandArguments(command) ==
    CASE command.command = "sysy.adjustParameters" ->
            <<command.arguments.uri, command.arguments.range, command.arguments.expectedCount>>
      [] command.command = "sysy.addReturnStatement" ->
            <<command.arguments.uri, command.arguments.range, command.arguments.returnType>>
      [] command.command \in {"sysy.extractFunction", "sysy.genericFix"} ->
            <<command.arguments.uri, command.arguments.range>>

\* the least number of arguments the case of a command asks for before it
\* does anything; -1 for a command the switch has no case for
ArgumentsAsked(command) ==
    CASE command = "sysy.fixArraySize" -> 3
      [] command = "sysy.adjustParameters" -> 4
      [] command = "sysy.addReturnStatement" -> 3
      [] command = "sysy.extractFunction" -> 3
      [] command = "sysy.genericFix" -> 2
      [] OTHER -> -1

\* onExecuteCommand: whether the body of the command's case ran
onExecuteCommand(command, args) ==
    [handled |-> ArgumentsAsked(command) >= 0 /\ Len(args) >= ArgumentsAsked(command)]

\* the commands of the actions a request came back with
CommandsOffered(request) ==
    The({{actions[k].command :
             k \in {j \in 1..Len(actions) : actions[j].command # NoCommand}} :
            actions \in {getCodeActions(request.params, request.text).actions}})

\* workspace/executeCommand: the editor runs the command of an offered action
ExecuteCommand ==
    \E request \in Requests :
        \E command \in CommandsOffered(request) :
            /\ Call("onExecuteCommand",
                    [command |-> command.command, arguments |-> CommandArguments(command)],
                    onExecuteCommand(command.command, CommandArguments(command)))
            /\ UNCHANGED <<DocumentVars, reported, funcNames, DebuggerVars>>

CommandNext ==
    \/ GetCodeActions
    \/ ExecuteCommand
    \/ Respond

CommandSpec == Init /\ [][CommandNext]_vars

\* the argument list is the documented one of the command: the document, the
\* range, and for two commands a third value
DocumentedSignature ==
    /\ arg.arguments[1] = "uri"
    /\ DOMAIN arg.arguments[2] = {"start", "end"}
    /\ CASE arg.command = "sysy.adjustParameters" ->
               Len(arg.arguments) = 3 /\ arg.arguments[3] \in Nat
         [] arg.command = "sysy.addReturnStatement" ->
               Len(arg.arguments) = 3 /\ arg.arguments[3] \in {T_int, T_float}
         [] arg.command \in {"sysy.extractFunction", "sysy.genericFix"} ->
               Len(arg.arguments) = 2
         [] OTHER -> FALSE

\* C29: every deferred command put in an action carries the positional
\* arguments of its documented signature, and that list passes the
\* argument-count guard of the command's case in the execute-command handler.
C29_CommandsHandled ==
    op = "onExecuteCommand" => DocumentedSignature /\ out.handled

\* C29, what holds: every command carries its documented arguments; the guard
\* lets sysy.addReturnStatement and sysy.genericFix in and keeps
\* sysy.adjustParameters and sysy.extractFunction out
C29_TwoOfFourHandled ==
    op = "onExecuteCommand" =>
        /\ DocumentedSignature
        /\ out.handled <=> arg.command \in {"sysy.addReturnStatement", "sysy.genericFix"}

\* the command of a parameter fix was run with its three arguments and its
\* case did nothing
C29_AdjustSkipped ==
    /\ op = "onExecuteCommand"
    /\ arg.command = "sysy.adjustParameters"
    /\ Len(arg.arguments) = 3
    /\ ~out.handled

\* the command of the extract-function action was run and its case did nothing
C29_ExtractSkipped ==
    /\ op = "onExecuteCommand"
    /\ arg.command = "sysy.extractFunction"
    /\ ~out.handled

\* the command of a return fix was run and its case ran
C29_ReturnHandled ==
    /\ op = "onExecuteCommand"
    /\ arg.command = "sysy.addReturnStatement"
    /\ out.handled
---------------------------------------------------------------------------
(* debuggerService: sessions, and the timers of continue() and stepOver() *)

\* an instruction of an executable: its line, and the variable its text
\* assigns to ("" when its operation is not an assignment or the text has no
\* `name = value`)
Instruction(line, assigns) == [line |-> line, assigns |-> assigns]

\* executables of 0..MaxInstructions instructions, one per line from line 1;
\* the first instruction assigns to x
Executables ==
    {[instructions |-> [i \in 1..n |-> Instruction(i, IF i = 1 THEN "x" ELSE "")]] :
        n \in 0..MaxInstructions}

\* the object startSession creates; id tells the objects apart.  variables
\* keeps the names that have a value: the values are random numbers
Session(id, executable) ==
    [id |-> id, executable |-> executable, currentLine |-> 0, variables |-> {},
     callStack |-> <<>>, breakpoints |-> {}, paused |-> FALSE, running |-> FALSE]

\* _emit(event, {session}): the event and the session object handed to it
Event(event, session) == [event |-> event, session |-> session.id]

\* what a method or a callback leaves: the current session, the events it
\* emitted, the timers it scheduled, and whether it threw
Left(session, events, scheduled) ==
    [raised |-> FALSE, session |-> session, events |-> events, scheduled |-> scheduled]

\* a TypeError from reading a property of null
TypeError(session) ==
    [raised |-> TRUE, session |-> session, events |-> <<>>, scheduled |-> <<>>]

\* setTimeout(callback, delay): callback names the method that made it, and
\* session the session that was current when it was scheduled
Timer(callback, delay, session) ==
    [callback |-> callback, delay |-> delay, session |-> session.id]

endSession(session) ==
    IF session # NoSession
    THEN Left(NoSession, <<Event("sessionEnded", session)>>, <<>>)
    ELSE Left(session, <<>>, <<>>)

startSession(session, executable, id) ==
    The({Left(Session(id, executable),
              ended.events \o <<Event("sessionStarted", Session(id, executable))>>, <<>>) :
            ended \in {endSession(session)}})

toggleBreakpoint(session, line) ==
    IF session = NoSession THEN Left(session, <<>>, <<>>)
    ELSE IF line \in session.breakpoints
    THEN Left([session EXCEPT !.breakpoints = @ \ {line}],
              <<[event |-> "breakpointRemoved", line |-> line]>>, <<>>)
    ELSE Left([session EXCEPT !.breakpoints = @ \cup {line}],
              <<[event |-> "breakpointAdded", line |-> line]>>, <<>>)

\* continue(), up to the call of setTimeout
continue(session) ==
    IF session = NoSession \/ session.running THEN Left(session, <<>>, <<>>)
    ELSE The({Left(resumed, <<Event("resumed", resumed)>>,
                   <<Timer("continue", 1000, resumed)>>) :
                 resumed \in {[session EXCEPT !.running = TRUE, !.paused = FALSE]}})

\* stepOver(), up to the call of setTimeout
stepOver(session) ==
    IF session = NoSession \/ session.running THEN Left(session, <<>>, <<>>)
    ELSE The({Left(stepping, <<Event("stepping", stepping)>>,
                   <<Timer("stepOver", 500, stepping)>>) :
                 stepping \in {[session EXCEPT !.running = TRUE]}})

\* the indices, counted from 0, after currentLine whose instruction's line
\* has a breakpoint
BreakpointsAhead(session) ==
    {i \in (session.currentLine + 1)..(Len(session.executable.instructions) - 1) :
        session.executable.instructions[i + 1].line \in session.breakpoints}

\* the callback of continue(): it reads this.currentSession when it runs
continueTimeout(session) ==
    IF session = NoSession THEN TypeError(session)
    ELSE IF BreakpointsAhead(session) # {}
    THEN The({Left(paused, <<Event("paused", paused)>>, <<>>) :
                 paused \in {[session EXCEPT !.currentLine = Least(BreakpointsAhead(session)),
                                             !.paused = TRUE, !.running = FALSE]}})
    ELSE The({Left(done, <<Event("terminated", done)>>, <<>>) :
                 done \in {[session EXCEPT
                               !.currentLine = Len(session.executable.instructions) - 1,
                               !.running = FALSE]}})

\* the callback of stepOver(): it reads this.currentSession when it runs
stepOverTimeout(session) ==
    IF session = NoSession THEN TypeError(session)
    ELSE IF session.currentLine < Len(session.executable.instructions) - 1
    THEN The({Left(paused, <<Event("paused", paused)>>, <<>>) :
                 paused \in {[session EXCEPT
                                 !.currentLine = @ + 1, !.paused = TRUE, !.running = FALSE,
                                 !.variables =
                                     IF session.executable
                                            .instructions[session.currentLine + 2].assigns # ""
                                     THEN @ \cup {session.executable
                                                     .instructions[session.currentLine + 2].assigns}
                                     ELSE @]}})
    ELSE The({Left(done, <<Event("terminated", done)>>, <<>>) :
                 done \in {[session EXCEPT !.running = FALSE]}})

\* a seeded fault: the callback does nothing when no session is current
continueTimeoutGuarded(session) ==
    IF session = NoSession THEN Left(session, <<>>, <<>>) ELSE continueTimeout(session)

\* the pending timers that can run next: a timer runs before every timer
\* scheduled after it with the same or a longer delay
Due ==
    {k \in 1..Len(timers) :
        \A j \in 1..(k - 1) : timers[j].delay > timers[k].delay}

Without(s, k) == SubSeq(s, 1, k - 1) \o SubSeq(s, k + 1, Len(s))

\* a method of the service runs on the current session
Method(name, a, left) ==
    /\ Call(name, a, [raised |-> left.raised, events |-> left.events])
    /\ currentSession' = left.session
    /\ timers' = timers \o left.scheduled
    /\ UNCHANGED <<DocumentVars, reported, funcNames>>

StartSession ==
    /\ started < MaxSessions
    /\ started' = started + 1
    /\ \E executable \in Executables :
          Method("startSession", [executable |-> executable, session |-> currentSession],
                 startSession(currentSession, executable, started + 1))

EndSession ==
    /\ Method("endSession", [session |-> currentSession], endSession(currentSession))
    /\ UNCHANGED started

ToggleBreakpoint ==
    /\ \E line \in 1..MaxInstructions :
          Method("toggleBreakpoint", [line |-> line, session |-> currentSession],
                 toggleBreakpoint(currentSession, line))
    /\ UNCHANGED started

Continue ==
    /\ Len(timers) < MaxTimers
    /\ Method("continue", [session |-> currentSession], continue(currentSession))
    /\ UNCHANGED started

StepOver ==
    /\ Len(timers) < MaxTimers
    /\ Method("stepOver", [session |-> currentSession], stepOver(currentSession))
    /\ UNCHANGED started

\* a pending timer expires and its callback runs
Timeout ==
    /\ \E k \in Due :
          \E left \in {IF timers[k].callback = "continue"
                       THEN continueTimeout(currentSession)
                       ELSE stepOverTimeout(currentSession)} :
              /\ Call("timeout", [timer |-> timers[k], session |-> currentSession],
                      [raised |-> left.raised, events |-> left.events])
              /\ currentSession' = left.session
              /\ timers' = Without(timers, k)
    /\ UNCHANGED <<DocumentVars, reported, funcNames, started>>

DebugNext ==
    \/ StartSession
    \/ EndSession
    \/ ToggleBreakpoint
    \/ Continue
    \/ StepOver
    \/ Timeout
    \/ Respond

DebugSpec == Init /\ [][DebugNext]_vars

\* the session that scheduled the timer is not the current one any more
Ended(timer, session) == session = NoSession \/ session.id # timer.session

\* C30: a timer scheduled by continue() or stepOver() is inert once its
\* session has ended: when it fires after endSession it raises no fault, it
\* leaves currentLine, paused and running of a later session as they are, and
\* it emits no paused or terminated event for it.
C30_TimerInert ==
    op = "timeout" /\ Ended(arg.timer, arg.session) =>
        /\ ~out.raised
        /\ currentSession = arg.session
        /\ out.events = <<>>

\* C30, what holds: the callback works on whatever session is current when it
\* runs.  It raises exactly when there is none, and otherwise stops that
\* session and emits paused or terminated for it, also when another session
\* scheduled the timer
C30_ActsOnCurrent ==
    op = "timeout" =>
        /\ out.raised <=> arg.session = NoSession
        /\ out.raised => currentSession = NoSession /\ out.events = <<>>
        /\ ~out.raised =>
              /\ currentSession.id = arg.session.id
              /\ ~currentSession.running
              /\ Len(out.events) = 1
              /\ out.events[1].event \in {"paused", "terminated"}
              /\ out.events[1].session = arg.session.id

\* a timer fired after its session was ended and no other started, and raised
C30_FaultAfterEnd ==
    /\ op = "timeout"
    /\ arg.session = NoSession
    /\ out.raised

\* a timer of the first session fired in the second, which had not been
\* resumed, and moved its current line and emitted an event for it
C30_LaterSessionChanged ==
    /\ op = "timeout"
    /\ arg.session # NoSession
    /\ arg.timer.session = 1
    /\ arg.session.id = 2
    /\ ~arg.session.running
    /\ currentSession.currentLine # arg.session.currentLine
    /\ out.events # <<>>
    /\ out.events[1].session = 2

\* a timer fired in the session that scheduled it and paused it at a breakpoint
C30_OwnTimerPaused ==
    /\ op = "timeout"
    /\ arg.session # NoSession
    /\ arg.timer.session = arg.session.id
    /\ arg.timer.callback = "continue"
    /\ currentSession.paused
    /\ out.events # <<>>
    /\ out.events[1].event = "paused"
=============================================================================
